---- MODULE Spec2Model ----
(***************************************************************************)
(* Workout notebook: the step expansion engine (buildSteps) and the       *)
(* session runner (RunWorkout) over the exercises / blocks / layoutOrder  *)
(* owned by the Index page.                                                *)
(*                                                                         *)
(* Encoding of JavaScript values.  An optional value (a field that may be *)
(* undefined, an array slot that may be a hole) is a sequence of length   *)
(* at most one: undefined is <<>>, a present value v is <<v>>.  Arrays    *)
(* are sequences of such optional values.  A string is the sequence of    *)
(* its characters, written Str("...") for the literals of the model; ids  *)
(* and the names of types and tabs are atoms.  Exercise names are left    *)
(* out: a step's exerciseName is a copy of the name and nothing reads it. *)
(* Numbers are integers: no string of the model has a decimal point.      *)
(***************************************************************************)
EXTENDS Integers, Sequences, FiniteSets, TLC

VARIABLES
  exercises,          \* Index: useState<ParsedExercise[]>
  blocks,             \* Index: useState<WorkoutBlock[]>
  layoutOrder,        \* Index: useState<Array<{type, id}>>
  storage,            \* localStorage item 'workout-autosave'
  activeTab,          \* the selected tab: RunWorkout is mounted while it is "run"
  steps,              \* RunWorkout: const steps = buildSteps() of the last render
  currentStepIndex,   \* RunWorkout: useState(0)
  isRestTimerActive,  \* RunWorkout: useState(false)
  restTimeRemaining,  \* RunWorkout: useState(0)
  now,                \* Date.now() when it was last read, in milliseconds
  pc                  \* position of the page / of the expansion call

vars == <<exercises, blocks, layoutOrder, storage, activeTab, steps,
          currentStepIndex, isRestTimerActive, restTimeRemaining, now, pc>>

undefined == <<>>

Some(v) == <<v>>

\* An array literal: every slot filled.
Arr(s) == [i \in DOMAIN s |-> <<s[i]>>]

\* arr[i] of JavaScript for a 0-based index i: undefined out of range or at a hole.
At(arr, i) == IF (i + 1) \in DOMAIN arr THEN arr[i + 1] ELSE undefined

\* The characters of the string literals of the model.
Str(s) ==
  CASE s = "" -> <<>>
    [] s = "80 kg" -> <<"8", "0", " ", "k", "g">>
    [] s = "80kg" -> <<"8", "0", "k", "g">>
    [] s = "40kg" -> <<"4", "0", "k", "g">>
    [] s = "50kg" -> <<"5", "0", "k", "g">>
    [] s = "60kg" -> <<"6", "0", "k", "g">>
    [] s = "135 lbs" -> <<"1", "3", "5", " ", "l", "b", "s">>
    [] s = "150lbs" -> <<"1", "5", "0", "l", "b", "s">>
    [] s = "2 miles" -> <<"2", " ", "m", "i", "l", "e", "s">>
    [] s = "3 miles" -> <<"3", " ", "m", "i", "l", "e", "s">>
    [] s = "1:30" -> <<"1", ":", "3", "0">>
    [] s = "2:00" -> <<"2", ":", "0", "0">>
    [] s = "1:00" -> <<"1", ":", "0", "0">>
    [] s = "0:02" -> <<"0", ":", "0", "2">>
    [] s = "30s" -> <<"3", "0", "s">>
    [] s = "3s" -> <<"3", "s">>
    [] s = "2min" -> <<"2", "m", "i", "n">>
    [] s = "rest" -> <<"r", "e", "s", "t">>
    [] s = "x" -> <<"x">>
    [] s = "@" -> <<"@">>
    [] s = "/" -> <<"/">>
    [] s = ":" -> <<":">>
    [] s = " " -> <<" ">>
    [] s = "s" -> <<"s">>
    [] s = "sec" -> <<"s", "e", "c">>
    [] s = "seconds" -> <<"s", "e", "c", "o", "n", "d", "s">>
    [] s = "second" -> <<"s", "e", "c", "o", "n", "d">>
    [] s = "m" -> <<"m">>
    [] s = "min" -> <<"m", "i", "n">>
    [] s = "minutes" -> <<"m", "i", "n", "u", "t", "e", "s">>
    [] s = "minute" -> <<"m", "i", "n", "u", "t", "e">>
    [] s = "secs" -> <<"s", "e", "c", "s">>
    [] s = "mins" -> <<"m", "i", "n", "s">>
    [] s = "hours" -> <<"h", "o", "u", "r", "s">>
    [] s = "hour" -> <<"h", "o", "u", "r">>
    [] s = "hrs" -> <<"h", "r", "s">>
    [] s = "hr" -> <<"h", "r">>
    [] s = "miles" -> <<"m", "i", "l", "e", "s">>
    [] s = "mile" -> <<"m", "i", "l", "e">>
    [] s = "km" -> <<"k", "m">>
    [] s = "kilometers" -> <<"k", "i", "l", "o", "m", "e", "t", "e", "r", "s">>
    [] s = "kilometer" -> <<"k", "i", "l", "o", "m", "e", "t", "e", "r">>
    [] s = "meters" -> <<"m", "e", "t", "e", "r", "s">>
    [] s = "meter" -> <<"m", "e", "t", "e", "r">>
    [] s = "yards" -> <<"y", "a", "r", "d", "s">>
    [] s = "yard" -> <<"y", "a", "r", "d">>
    [] s = "yds" -> <<"y", "d", "s">>
    [] s = "yd" -> <<"y", "d">>
    [] s = "lbs" -> <<"l", "b", "s">>
    [] s = "lb" -> <<"l", "b">>
    [] s = "kg" -> <<"k", "g">>
    [] s = "pounds" -> <<"p", "o", "u", "n", "d", "s">>
    [] s = "pound" -> <<"p", "o", "u", "n", "d">>
    [] s = "3" -> <<"3">>
    [] s = "12" -> <<"1", "2">>
    [] s = "10" -> <<"1", "0">>
    [] s = "8" -> <<"8">>
    [] s = "40" -> <<"4", "0">>
    [] s = "50" -> <<"5", "0">>
    [] s = "60" -> <<"6", "0">>
    [] s = "135" -> <<"1", "3", "5">>
    [] s = "30" -> <<"3", "0">>
    [] s = "5" -> <<"5">>
    [] s = "2" -> <<"2">>
    [] s = "1" -> <<"1">>
    [] s = "100" -> <<"1", "0", "0">>
    [] s = "45" -> <<"4", "5">>
    [] s = "3x10" -> <<"3", "x", "1", "0">>
    [] s = "3x10 @ 135lbs" -> <<"3", "x", "1", "0", " ", "@", " ", "1", "3", "5", "l", "b", "s">>
    [] s = "3x10 @ 40/50kg" -> <<"3", "x", "1", "0", " ", "@", " ", "4", "0", "/", "5", "0", "k", "g">>
    [] s = "30 seconds" -> <<"3", "0", " ", "s", "e", "c", "o", "n", "d", "s">>
    [] s = "5 minutes" -> <<"5", " ", "m", "i", "n", "u", "t", "e", "s">>
    [] s = "5km" -> <<"5", "k", "m">>
    [] s = "5 km" -> <<"5", " ", "k", "m">>
    [] s = "100m" -> <<"1", "0", "0", "m">>
    [] s = "100 m" -> <<"1", "0", "0", " ", "m">>
    [] s = "135lbs" -> <<"1", "3", "5", "l", "b", "s">>
    [] s = "60 kg" -> <<"6", "0", " ", "k", "g">>
    [] s = "rest 30s" -> <<"r", "e", "s", "t", " ", "3", "0", "s">>
    [] s = "45s rest" -> <<"4", "5", "s", " ", "r", "e", "s", "t">>
    [] s = "45s" -> <<"4", "5", "s">>
    [] s = "rest 2min" -> <<"r", "e", "s", "t", " ", "2", "m", "i", "n">>
    [] s = "10 min rest" -> <<"1", "0", " ", "m", "i", "n", " ", "r", "e", "s", "t">>
    [] s = "rest 1:30" -> <<"r", "e", "s", "t", " ", "1", ":", "3", "0">>
    [] s = " X " -> <<" ", "X", " ">>
    [] s = " @ " -> <<" ", "@", " ">>
    [] s = "2m" -> <<"2", "m">>
    [] s = "10min" -> <<"1", "0", "m", "i", "n">>
    [] s = "130" -> <<"1", "3", "0">>
    [] s = "2 min" -> <<"2", " ", "m", "i", "n">>
    [] s = "10 min" -> <<"1", "0", " ", "m", "i", "n">>
    [] s = "1:30 rest" -> <<"1", ":", "3", "0", " ", "r", "e", "s", "t">>
    [] s = "3x10 @ 135LBS" -> <<"3", "x", "1", "0", " ", "@", " ", "1", "3", "5", "L", "B", "S">>
    [] s = "30 Minutes" -> <<"3", "0", " ", "M", "i", "n", "u", "t", "e", "s">>
    [] s = "5 KM" -> <<"5", " ", "K", "M">>
    [] s = "135 LBS" -> <<"1", "3", "5", " ", "L", "B", "S">>
    [] s = "30 minutes" -> <<"3", "0", " ", "m", "i", "n", "u", "t", "e", "s">>
    [] s = "0x10" -> <<"0", "x", "1", "0">>
    [] s = "3x0" -> <<"3", "x", "0">>
    [] s = "0:05" -> <<"0", ":", "0", "5">>
    [] s = "10 sec" -> <<"1", "0", " ", "s", "e", "c">>
    [] s = "45 seconds" -> <<"4", "5", " ", "s", "e", "c", "o", "n", "d", "s">>
    [] s = "1 m" -> <<"1", " ", "m">>
    [] s = "3 minutes" -> <<"3", " ", "m", "i", "n", "u", "t", "e", "s">>
    [] s = "-1:30" -> <<"-", "1", ":", "3", "0">>
    [] s = "Core" -> <<"C", "o", "r", "e">>
    [] s = "Upper Body Strength" ->
         <<"U", "p", "p", "e", "r", " ", "B", "o", "d", "y", " ",
           "S", "t", "r", "e", "n", "g", "t", "h">>

\* Truthiness of an optional string / an optional number.
TruthyStr(o) == o # undefined /\ o[1] # Str("")

TruthyNum(o) == o # undefined /\ o[1] # 0

\* o || d for an optional number o and a number d.
OrNum(o, d) == IF TruthyNum(o) THEN o[1] ELSE d

Min(a, b) == IF a <= b THEN a ELSE b

----------------------------------------------------------------------------
(* buildSteps, RunWorkout.tsx *)

\* exercises.find(ex => ex.id === layoutItem.id): the first match, or undefined.
findById(list, id) ==
  LET hits == {i \in DOMAIN list : list[i].id = id}
  IN IF hits = {} THEN undefined
     ELSE Some(list[CHOOSE i \in hits : \A j \in hits : i <= j])

\* Mutant: sets ?? 1, which keeps a zero.
setsOfNullish(exercise) ==
  IF exercise.parsedData.sets = undefined THEN 1 ELSE exercise.parsedData.sets[1]

\* const sets = exercise.parsedData.sets || 1
setsOf(exercise) == OrNum(exercise.parsedData.sets, 1)

\* const rounds = block.rounds || 1
roundsOf(block) == OrNum(block.rounds, 1)

\* Mutant: the standalone step resolves its weight like a block step of round `set`.
standaloneStepProgressive(exercise, set) ==
  LET pw == exercise.parsedData.progressiveWeights
  IN [ id         |-> <<exercise.id, "-set-", set>>,
       exerciseId |-> exercise.id,
       reps       |-> exercise.parsedData.reps,
       weight     |-> IF ~TruthyStr(exercise.parsedData.weight) /\ pw # undefined
                        THEN At(pw[1], Min(set - 1, Len(pw[1]) - 1))
                        ELSE exercise.parsedData.weight,
       time       |-> exercise.parsedData.time,
       distance   |-> exercise.parsedData.distance,
       restPeriod |-> exercise.parsedData.restPeriod,
       context    |-> undefined,
       restAfter  |-> undefined ]

\* The step pushed for one set of a standalone exercise.
standaloneStep(exercise, set) ==
  [ id         |-> <<exercise.id, "-set-", set>>,
    exerciseId |-> exercise.id,
    reps       |-> exercise.parsedData.reps,
    weight     |-> exercise.parsedData.weight,
    time       |-> exercise.parsedData.time,
    distance   |-> exercise.parsedData.distance,
    restPeriod |-> exercise.parsedData.restPeriod,
    context    |-> undefined,
    restAfter  |-> undefined ]

\* for (let set = 1; set <= sets; set++) steps.push(...)
RECURSIVE setLoop(_, _, _, _)
setLoop(acc, exercise, sets, set) ==
  IF set <= sets
    THEN setLoop(Append(acc, standaloneStep(exercise, set)), exercise, sets, set + 1)
    ELSE acc

\* Array.prototype.sort with (a, b) => a.timestamp - b.timestamp: a stable sort,
\* so x goes after every element whose timestamp is not larger.
insertByTimestamp(sorted, x) ==
  LET k == Cardinality({i \in DOMAIN sorted : sorted[i].timestamp <= x.timestamp})
  IN SubSeq(sorted, 1, k) \o <<x>> \o SubSeq(sorted, k + 1, Len(sorted))

RECURSIVE sortByTimestamp(_)
sortByTimestamp(list) ==
  IF list = <<>> THEN <<>>
  ELSE insertByTimestamp(sortByTimestamp(SubSeq(list, 1, Len(list) - 1)), list[Len(list)])

\* Mutant: the members in the order of the exercises array, not sorted.
blockExercisesUnsorted(exs, block) ==
  SelectSeq(exs, LAMBDA ex : ex.blockId = Some(block.id))

\* exercises.filter(ex => ex.blockId === block.id).sort(...)
blockExercisesOf(exs, block) ==
  sortByTimestamp(SelectSeq(exs, LAMBDA ex : ex.blockId = Some(block.id)))

\* reps of the round: the base value, replaced when roundReps[round - 1] !== undefined.
roundRepsOf(exercise, round) ==
  LET prog == exercise.blockProgression
  IN IF prog # undefined /\ prog[1].roundReps # undefined
        /\ At(prog[1].roundReps[1], round - 1) # undefined
       THEN At(prog[1].roundReps[1], round - 1)
       ELSE exercise.parsedData.reps

\* A string field of the round: the base value, replaced when the round entry is truthy.
roundStrOf(exercise, base, table, round) ==
  IF exercise.blockProgression # undefined /\ table # undefined
     /\ TruthyStr(At(table[1], round - 1))
    THEN At(table[1], round - 1)
    ELSE base

roundTimeOf(exercise, round) ==
  roundStrOf(exercise, exercise.parsedData.time,
             IF exercise.blockProgression = undefined THEN undefined
             ELSE exercise.blockProgression[1].roundTimes, round)

roundDistanceOf(exercise, round) ==
  roundStrOf(exercise, exercise.parsedData.distance,
             IF exercise.blockProgression = undefined THEN undefined
             ELSE exercise.blockProgression[1].roundDistances, round)

\* weight of the round: base, then roundWeights, then progressiveWeights if (!weight).
roundWeightOf(exercise, round) ==
  LET weight == roundStrOf(exercise, exercise.parsedData.weight,
                           IF exercise.blockProgression = undefined THEN undefined
                           ELSE exercise.blockProgression[1].roundWeights, round)
      pw == exercise.parsedData.progressiveWeights
  IN IF ~TruthyStr(weight) /\ pw # undefined
       THEN At(pw[1], Min(round - 1, Len(pw[1]) - 1))
       ELSE weight

\* Mutant: the rest is attached after the last member too.
restAfterEvery(block, blockExercises, exIndex) ==
  IF exIndex < Len(blockExercises) THEN block.restBetweenExercises ELSE undefined

\* restAfter: exIndex < blockExercises.length - 1 ? block.restBetweenExercises : undefined
restAfterOf(block, blockExercises, exIndex) ==
  IF exIndex < Len(blockExercises) - 1 THEN block.restBetweenExercises ELSE undefined

\* The step pushed for blockExercises[exIndex] in one round.
blockStep(block, blockExercises, rounds, round, exIndex) ==
  LET exercise == blockExercises[exIndex + 1]
  IN [ id         |-> <<exercise.id, "-round-", round>>,
       exerciseId |-> exercise.id,
       reps       |-> roundRepsOf(exercise, round),
       weight     |-> roundWeightOf(exercise, round),
       time       |-> roundTimeOf(exercise, round),
       distance   |-> roundDistanceOf(exercise, round),
       restPeriod |-> exercise.parsedData.restPeriod,
       context    |-> Some([ blockName             |-> block.name,
                             blockType             |-> block.type,
                             currentRound          |-> round,
                             totalRounds           |-> rounds,
                             exerciseInBlock       |-> exIndex + 1,
                             totalExercisesInBlock |-> Len(blockExercises) ]),
       restAfter  |-> restAfterOf(block, blockExercises, exIndex) ]

\* for (let exIndex = 0; exIndex < blockExercises.length; exIndex++)
RECURSIVE exerciseLoop(_, _, _, _, _, _)
exerciseLoop(acc, block, blockExercises, rounds, round, exIndex) ==
  IF exIndex < Len(blockExercises)
    THEN exerciseLoop(Append(acc, blockStep(block, blockExercises, rounds, round, exIndex)),
                      block, blockExercises, rounds, round, exIndex + 1)
    ELSE acc

\* for (let round = 1; round <= rounds; round++)
RECURSIVE roundLoop(_, _, _, _, _)
roundLoop(acc, block, blockExercises, rounds, round) ==
  IF round <= rounds
    THEN roundLoop(exerciseLoop(acc, block, blockExercises, rounds, round, 0),
                   block, blockExercises, rounds, round + 1)
    ELSE acc

\* Mutant: an entry that matches no entity ends the loop (break for continue).
RECURSIVE layoutLoopBreak(_, _, _, _, _)
layoutLoopBreak(acc, exs, blks, layout, i) ==
  IF i > Len(layout) THEN acc
  ELSE
    LET layoutItem == layout[i]
    IN IF layoutItem.type = "exercise"
         THEN LET exercise == findById(exs, layoutItem.id)
              IN IF exercise = undefined
                   THEN acc
                   ELSE layoutLoopBreak(setLoop(acc, exercise[1], setsOf(exercise[1]), 1),
                                        exs, blks, layout, i + 1)
         ELSE LET block == findById(blks, layoutItem.id)
              IN IF block = undefined
                   THEN acc
                   ELSE layoutLoopBreak(roundLoop(acc, block[1],
                                                  blockExercisesOf(exs, block[1]),
                                                  roundsOf(block[1]), 1),
                                        exs, blks, layout, i + 1)

\* for (const layoutItem of layoutOrder): the body for item i and the rest of the loop.
RECURSIVE layoutLoop(_, _, _, _, _)
layoutLoop(acc, exs, blks, layout, i) ==
  IF i > Len(layout) THEN acc
  ELSE
    LET layoutItem == layout[i]
    IN IF layoutItem.type = "exercise"
         THEN LET exercise == findById(exs, layoutItem.id)
              IN IF exercise = undefined
                   THEN layoutLoop(acc, exs, blks, layout, i + 1)
                   ELSE layoutLoop(setLoop(acc, exercise[1], setsOf(exercise[1]), 1),
                                   exs, blks, layout, i + 1)
         ELSE LET block == findById(blks, layoutItem.id)
              IN IF block = undefined
                   THEN layoutLoop(acc, exs, blks, layout, i + 1)
                   ELSE layoutLoop(roundLoop(acc, block[1], blockExercisesOf(exs, block[1]),
                                             roundsOf(block[1]), 1),
                                   exs, blks, layout, i + 1)

buildSteps(exs, blks, layout) == layoutLoop(<<>>, exs, blks, layout, 1)

----------------------------------------------------------------------------
(* parseTimeToSeconds, RunWorkout.tsx *)

IsDigit(c) == c \in {"0", "1", "2", "3", "4", "5", "6", "7", "8", "9"}

DigitValue(c) ==
  CASE c = "0" -> 0 [] c = "1" -> 1 [] c = "2" -> 2 [] c = "3" -> 3 [] c = "4" -> 4
    [] c = "5" -> 5 [] c = "6" -> 6 [] c = "7" -> 7 [] c = "8" -> 8 [] c = "9" -> 9

IsSpace(c) == c = " "

\* String.prototype.toLowerCase on one character.
LowerChar(c) ==
  CASE c = "A" -> "a" [] c = "B" -> "b" [] c = "C" -> "c" [] c = "D" -> "d" [] c = "E" -> "e" [] c = "F" -> "f"
    [] c = "G" -> "g" [] c = "H" -> "h" [] c = "I" -> "i" [] c = "J" -> "j" [] c = "K" -> "k" [] c = "L" -> "l"
    [] c = "M" -> "m" [] c = "N" -> "n" [] c = "O" -> "o" [] c = "P" -> "p" [] c = "Q" -> "q" [] c = "R" -> "r"
    [] c = "S" -> "s" [] c = "T" -> "t" [] c = "U" -> "u" [] c = "V" -> "v" [] c = "W" -> "w" [] c = "X" -> "x"
    [] c = "Y" -> "y" [] c = "Z" -> "z"
    [] OTHER -> c

\* Variant of toLowerCase that keeps the text as typed.
keepCase(str) == str

toLowerCase(str) == [i \in DOMAIN str |-> LowerChar(str[i])]

\* String.prototype.trim
RECURSIVE trim(_)
trim(str) ==
  IF str = <<>> THEN str
  ELSE IF IsSpace(str[1]) THEN trim(Tail(str))
  ELSE IF IsSpace(str[Len(str)]) THEN trim(SubSeq(str, 1, Len(str) - 1))
  ELSE str

includes(str, c) == \E i \in DOMAIN str : str[i] = c

\* String.prototype.split on a one-character separator.
RECURSIVE split(_, _)
split(str, sep) ==
  IF ~includes(str, sep) THEN <<str>>
  ELSE LET i == CHOOSE k \in DOMAIN str :
                  str[k] = sep /\ \A j \in 1..(k - 1) : str[j] # sep
       IN <<SubSeq(str, 1, i - 1)>> \o split(SubSeq(str, i + 1, Len(str)), sep)

\* The value of the decimal digits str.
RECURSIVE digitsValue(_)
digitsValue(str) ==
  IF str = <<>> THEN 0
  ELSE 10 * digitsValue(SubSeq(str, 1, Len(str) - 1)) + DigitValue(str[Len(str)])

\* The end of the run of digits that starts at i (i - 1 if there is none).
digitsEnd(str, i) ==
  LET stops == {k \in i..Len(str) : ~IsDigit(str[k])}
  IN IF stops = {} THEN Len(str)
     ELSE (CHOOSE k \in stops : \A j \in stops : k <= j) - 1

\* The end of the run of white space that starts at i (i - 1 if there is none).
spacesEnd(str, i) ==
  LET stops == {k \in i..Len(str) : ~IsSpace(str[k])}
  IN IF stops = {} THEN Len(str)
     ELSE (CHOOSE k \in stops : \A j \in stops : k <= j) - 1

\* parseInt: leading white space, an optional sign, the digits that follow;
\* undefined stands for NaN.
parseInt(str) ==
  LET a    == spacesEnd(str, 1) + 1
      sign == IF a \in DOMAIN str /\ str[a] \in {"-", "+"} THEN 1 ELSE 0
      b    == a + sign
      e    == digitsEnd(str, b)
  IN IF e < b THEN undefined
     ELSE Some((IF sign = 1 /\ str[a] = "-" THEN -1 ELSE 1) * digitsValue(SubSeq(str, b, e)))

\* cleaned.match(/(\d+(?:\.\d+)?)\s*(s|sec|seconds?|m|min|minutes?)/): the leftmost
\* run of digits that is followed, after optional white space, by s or m.  The
\* alternatives are tried in order, so match[2] is "s" or "m".
unitMatch(cleaned) ==
  LET unitAt(i) == spacesEnd(cleaned, digitsEnd(cleaned, i) + 1) + 1
      starts == {i \in DOMAIN cleaned :
                   /\ IsDigit(cleaned[i])
                   /\ unitAt(i) \in DOMAIN cleaned
                   /\ cleaned[unitAt(i)] \in {"s", "m"}}
  IN IF starts = {} THEN undefined
     ELSE LET i == CHOOSE k \in starts : \A j \in starts : k <= j
          IN Some([ value |-> digitsValue(SubSeq(cleaned, i, digitsEnd(cleaned, i))),
                    unit  |-> cleaned[unitAt(i)] ])

\* Mutant: the minutes of MM:SS are not multiplied.
parseTimeToSecondsFlat(timeStr) ==
  LET cleaned == trim(toLowerCase(timeStr))
      parts   == split(cleaned, ":")
      match   == unitMatch(cleaned)
  IN IF includes(cleaned, ":") /\ Len(parts) = 2
       THEN OrNum(parseInt(parts[1]), 0) + OrNum(parseInt(parts[2]), 0)
     ELSE IF match # undefined
       THEN match[1].value
     ELSE 60

parseTimeToSeconds(timeStr) ==
  LET cleaned == trim(toLowerCase(timeStr))
      parts   == split(cleaned, ":")
      match   == unitMatch(cleaned)
  IN IF includes(cleaned, ":") /\ Len(parts) = 2
       THEN OrNum(parseInt(parts[1]), 0) * 60 + OrNum(parseInt(parts[2]), 0)
     ELSE IF match # undefined
       THEN IF match[1].unit = "m" THEN match[1].value * 60 ELSE match[1].value
     ELSE 60

----------------------------------------------------------------------------
(* Expansion of bounded inputs: SpecExpand *)

MaxSets == 2

MaxRounds == 3

MaxTimestamp == 2

PD(sets, reps, weight, pw, time, distance, restPeriod, type) ==
  [ sets |-> sets, reps |-> reps, weight |-> weight, progressiveWeights |-> pw,
    time |-> time, distance |-> distance, restPeriod |-> restPeriod, type |-> type ]

Prog(rw, rr, rt, rd) ==
  Some([ roundWeights |-> rw, roundReps |-> rr, roundTimes |-> rt, roundDistances |-> rd ])

\* parsedData and blockProgression of a block member, as the parser, the block
\* editor (ExerciseInBlockEditor.handleSave) and the progression editor leave them.
MemberPayloads ==
  { \* "3x8 @ 80kg rest 30s", never edited
    [ pd |-> PD(Some(3), Some(8), Some(Str("80 kg")), undefined, undefined, undefined, Some(Str("30s")), "strength"),
      prog |-> undefined ],
    \* "3x10 @ 40/50kg": progressive weights, no base weight
    [ pd |-> PD(Some(3), Some(10), undefined, Some(Arr(<<Str("40kg"), Str("50kg")>>)),
                undefined, undefined, undefined, "strength"),
      prog |-> undefined ],
    \* "3x10 @ 135lbs" saved from the block editor with only round 2 filled
    [ pd |-> PD(Some(1), Some(10), Some(Str("135 lbs")), Some(Arr(<<Str("150lbs")>>)),
                undefined, undefined, undefined, "strength"),
      prog |-> Prog(Some(Arr(<<Str(""), Str("150lbs"), Str("")>>)), undefined, undefined, undefined) ],
    \* roundReps with a cleared field (0) and a hole
    [ pd |-> PD(Some(1), Some(10), undefined, undefined, undefined, undefined, undefined, "strength"),
      prog |-> Prog(undefined, Some(<<Some(12), Some(0), undefined, Some(8)>>),
                    undefined, undefined) ],
    \* time and distance with round entries, some empty
    [ pd |-> PD(Some(1), undefined, undefined, undefined, Some(Str("1:30")), Some(Str("2 miles")),
                Some(Str("1:00")), "time"),
      prog |-> Prog(undefined, undefined, Some(Arr(<<Str(""), Str("2:00")>>)),
                    Some(Arr(<<Str("3 miles")>>))) ],
    \* the block editor saved with every round weight empty: progressiveWeights = []
    [ pd |-> PD(Some(1), Some(5), undefined, Some(<<>>), undefined, undefined, undefined, "strength"),
      prog |-> Prog(Some(Arr(<<Str(""), Str("")>>)), Some(Arr(<<12, 10, 8>>)), undefined, undefined) ] }

SetsValues == {undefined} \cup {Some(n) : n \in -1..MaxSets}

\* A standalone exercise: any sets value; an ungrouped exercise keeps its
\* blockProgression and its progressiveWeights.
StandalonePayloads ==
  { [ pd |-> PD(s, Some(8), Some(Str("80 kg")), undefined, undefined, undefined, Some(Str("30s")), "strength"),
      prog |-> undefined ] : s \in SetsValues }
  \cup
  { [ pd |-> PD(s, Some(10), undefined, Some(Arr(<<Str("40kg"), Str("50kg")>>)),
                Some(Str("1:30")), Some(Str("2 miles")), undefined, "strength"),
      prog |-> Prog(Some(Arr(<<Str("60kg")>>)), Some(Arr(<<12>>)), Some(Arr(<<Str("2:00")>>)),
                    Some(Arr(<<Str("3 miles")>>))) ] : s \in {undefined, Some(2)} }

Exercise(id, payload, timestamp, blockId) ==
  [ id |-> id, parsedData |-> payload.pd, timestamp |-> timestamp,
    blockId |-> blockId, blockProgression |-> payload.prog ]

\* The third exercise: "3x8 @ 80kg rest 30s", standalone or a member of block1.
ThirdChoices ==
  LET p == [ pd |-> PD(Some(2), Some(8), Some(Str("80 kg")), undefined, undefined, undefined,
                       Some(Str("30s")), "strength"),
             prog |-> undefined ]
  IN { Exercise("3", p, 1, undefined), Exercise("3", p, 1, Some("block1")) }

\* Exercise id as a member of block1 or as a standalone exercise.
ExerciseChoices(id) ==
  { Exercise(id, p, t, Some("block1")) : p \in MemberPayloads, t \in 1..MaxTimestamp }
  \cup { Exercise(id, p, 1, undefined) : p \in StandalonePayloads }

RoundsValues == {undefined} \cup {Some(n) : n \in -1..MaxRounds}

BlockChoices ==
  { [ id |-> "block1", name |-> Str("Upper Body Strength"), type |-> "superset",
      exercises |-> <<"2", "7">>, restBetweenExercises |-> rest, rounds |-> r ] :
    rest \in {undefined, Some(Str("2min"))}, r \in RoundsValues }

Item(type, id) == [ type |-> type, id |-> id ]

\* Orders of the entries; "7" and "block7" match no entity.
LayoutTemplates ==
  { <<Item("block", "block1"), Item("exercise", "1"), Item("exercise", "2"),
      Item("exercise", "3")>>,
    <<Item("exercise", "2"), Item("exercise", "7"), Item("exercise", "3"),
      Item("block", "block1"), Item("exercise", "1")>>,
    <<Item("exercise", "1"), Item("block", "block7"), Item("block", "block1"),
      Item("exercise", "2")>>,
    <<Item("exercise", "7"), Item("block", "block1")>>,
    <<Item("block", "block7")>> }

\* The layouts of a template for the exercises exs: a block member has no entry of its own.
LayoutFor(exs, template) ==
  SelectSeq(template, LAMBDA item :
    ~(item.type = "exercise"
      /\ \E i \in DOMAIN exs : exs[i].id = item.id /\ exs[i].blockId # undefined))

RunnerIdle ==
  /\ storage = undefined
  /\ activeTab = "list"
  /\ currentStepIndex = 0
  /\ isRestTimerActive = FALSE
  /\ restTimeRemaining = 0
  /\ now = 0

InitExpand ==
  /\ \E e1 \in ExerciseChoices("1"), e2 \in ExerciseChoices("2"), e3 \in ThirdChoices :
        exercises = <<e1, e2, e3>>
  /\ \E b \in BlockChoices : blocks = <<b>>
  /\ \E template \in LayoutTemplates : layoutOrder = LayoutFor(exercises, template)
  /\ steps = <<>>
  /\ pc = "input"
  /\ RunnerIdle

\* One call of buildSteps on the inputs.
Expand ==
  /\ pc = "input"
  /\ steps' = buildSteps(exercises, blocks, layoutOrder)
  /\ pc' = "expanded"
  /\ UNCHANGED <<exercises, blocks, layoutOrder, storage, activeTab,
                 currentStepIndex, isRestTimerActive, restTimeRemaining, now>>

NextExpand == Expand

SpecExpand == InitExpand /\ [][NextExpand]_vars

----------------------------------------------------------------------------
(* Saved snapshots, workoutState.ts *)

CURRENT_VERSION == 1

DigitChar(d) ==
  CASE d = 0 -> "0" [] d = 1 -> "1" [] d = 2 -> "2" [] d = 3 -> "3" [] d = 4 -> "4"
    [] d = 5 -> "5" [] d = 6 -> "6" [] d = 7 -> "7" [] d = 8 -> "8" [] d = 9 -> "9"

\* Date.prototype.toISOString: the string of a time value, here its decimal digits.
RECURSIVE toISOString(_)
toISOString(t) ==
  IF t < 10 THEN <<DigitChar(t)>> ELSE toISOString(t \div 10) \o <<DigitChar(t % 10)>>

\* new Date(str).getTime() for a string written by toISOString.
Date(str) == digitsValue(str)

serializeState(state) ==
  [ version    |-> CURRENT_VERSION,
    savedAt    |-> toISOString(now),
    exercises  |-> [i \in DOMAIN state.exercises |->
                      [state.exercises[i] EXCEPT !.timestamp = toISOString(@)]],
    blocks      |-> state.blocks,
    layoutOrder |-> state.layoutOrder ]

deserializeState(serializedState) ==
  [ serializedState EXCEPT
      !.exercises = [i \in DOMAIN @ |-> [@[i] EXCEPT !.timestamp = Date(@)]] ]

\* z.array(z.string()).optional() / z.array(z.number()).optional(): in the JSON
\* text a hole of the array is null, which no element schema accepts.
ArrayValid(arr) == arr = undefined \/ \A i \in DOMAIN arr[1] : arr[1][i] # <<>>

ParsedExerciseValid(ex) ==
  /\ ArrayValid(ex.parsedData.progressiveWeights)
  /\ ex.parsedData.type \in {"strength", "cardio", "time", "unknown"}
  /\ \/ ex.blockProgression = undefined
     \/ LET prog == ex.blockProgression[1]
        IN /\ ArrayValid(prog.roundWeights) /\ ArrayValid(prog.roundReps)
           /\ ArrayValid(prog.roundTimes) /\ ArrayValid(prog.roundDistances)

\* WorkoutStateSchema.parse succeeds.
WorkoutStateValid(parsed) ==
  /\ \A i \in DOMAIN parsed.exercises : ParsedExerciseValid(parsed.exercises[i])
  /\ \A i \in DOMAIN parsed.blocks : parsed.blocks[i].type \in {"round", "superset", "circuit"}
  /\ \A i \in DOMAIN parsed.layoutOrder : parsed.layoutOrder[i].type \in {"block", "exercise"}

\* The result of a load or an import of the text content (undefined: no item,
\* or a text that JSON.parse rejects): the data, or undefined for { success: false }.
loadResult(content) ==
  IF content = undefined THEN undefined
  ELSE IF ~WorkoutStateValid(content[1]) THEN undefined
  ELSE Some(deserializeState(content[1]))

loadFromLocalStorage == loadResult(storage)

importFromJson(file) == loadResult(file)

\* The error of the { success: false } result of loadFromLocalStorage.
loadError ==
  IF storage = undefined THEN Some("No saved workout found")
  ELSE IF ~WorkoutStateValid(storage[1]) THEN Some("Failed to load saved workout")
  ELSE undefined

\* The error of the { success: false } result of importFromJson: JSON.parse
\* throws a SyntaxError, WorkoutStateSchema.parse a ZodError.
importError(file) ==
  IF file = undefined THEN Some("Failed to import workout file")
  ELSE IF ~WorkoutStateValid(file[1]) THEN Some("Invalid workout file format")
  ELSE undefined

saveToLocalStorage(state) == Some(serializeState(state))

----------------------------------------------------------------------------
(* The Index page *)

\* Date.now() when the page is opened: the default exercises are 300000 ms
\* and 240000 ms older.
PageOpened == 300000

\* Exercises added through the form in one run.
MaxAdded == 1

defaultExercises ==
  << Exercise("1", [ pd |-> PD(Some(3), Some(8), Some(Str("80kg")), undefined, undefined,
                               undefined, undefined, "strength"),
                     prog |-> undefined ], now - 300000, Some("block1")),
     Exercise("2", [ pd |-> PD(Some(3), Some(15), undefined, undefined, undefined,
                               undefined, undefined, "strength"),
                     prog |-> undefined ], now - 240000, Some("block1")) >>

defaultBlocks ==
  << [ id |-> "block1", name |-> Str("Upper Body Strength"), type |-> "superset",
       exercises |-> <<"1", "2">>, restBetweenExercises |-> Some(Str("2min")),
       rounds |-> Some(3) ] >>

defaultLayoutOrder == << Item("block", "block1") >>

\* What parseExerciseParameters returns for the parameters typed in the form:
\* "2x8 rest 3s" and "2 miles".
FormPayloads ==
  { [ pd |-> PD(Some(2), Some(8), undefined, undefined, undefined, undefined,
                Some(Str("3s")), "strength"),
      prog |-> undefined ],
    [ pd |-> PD(undefined, undefined, undefined, undefined, undefined, Some(Str("2 miles")),
                undefined, "cardio"),
      prog |-> undefined ] }

\* A snapshot written by an earlier visit: Push-ups alone, detached from its block.
SmallSnapshot ==
  [ version    |-> CURRENT_VERSION,
    savedAt    |-> toISOString(0),
    exercises  |-> << Exercise("2", [ pd |-> PD(Some(3), Some(15), undefined, undefined,
                                                undefined, undefined, undefined, "strength"),
                                      prog |-> undefined ], toISOString(0), undefined) >>,
    blocks      |-> <<>>,
    layoutOrder |-> << Item("exercise", "2") >> ]

\* The same snapshot with a hole in roundReps, which JSON.stringify wrote as null.
NullSnapshot ==
  [ SmallSnapshot EXCEPT
      !.exercises[1].blockProgression =
          Prog(undefined, Some(<<Some(12), undefined>>), undefined, undefined) ]

\* What localStorage holds when the page is opened.
StoredAtOpen == { undefined, Some(SmallSnapshot), Some(NullSnapshot) }

\* The files the user may pick: not JSON, a valid snapshot, an invalid one.
ImportFiles == { undefined, Some(SmallSnapshot), Some(NullSnapshot) }

\* One render: RunWorkout, mounted while the Run tab is selected, expands the
\* props it is handed and reads currentStep.exerciseName when the list is not
\* empty; the read throws when steps[currentStepIndex] is undefined.
Rendered ==
  /\ steps' = IF activeTab' = "run"
                THEN buildSteps(exercises', blocks', layoutOrder') ELSE <<>>
  /\ pc' = IF /\ activeTab' = "run"
              /\ steps' # <<>>
              /\ (currentStepIndex' + 1) \notin DOMAIN steps'
             THEN "crashed" ELSE "ready"

RunnerUnchanged ==
  UNCHANGED <<activeTab, currentStepIndex, isRestTimerActive, restTimeRemaining>>

setState(result) ==
  /\ exercises' = result.exercises
  /\ blocks' = result.blocks
  /\ layoutOrder' = result.layoutOrder

Init ==
  /\ exercises = <<>>
  /\ blocks = <<>>
  /\ layoutOrder = <<>>
  /\ storage \in StoredAtOpen
  /\ activeTab = "list"
  /\ steps = <<>>
  /\ currentStepIndex = 0
  /\ isRestTimerActive = FALSE
  /\ restTimeRemaining = 0
  /\ now = PageOpened
  /\ pc = "mount"

\* useEffect(..., []): load from localStorage on mount.
LoadOnMount ==
  /\ pc = "mount"
  /\ LET result == loadFromLocalStorage
     IN IF result # undefined
          THEN setState(result[1])
          ELSE /\ exercises' = defaultExercises
               /\ blocks' = defaultBlocks
               /\ layoutOrder' = defaultLayoutOrder
  /\ UNCHANGED <<storage, now>>
  /\ RunnerUnchanged
  /\ Rendered

\* Mutant: the auto-save timeout writes the snapshot of an empty session too.
AutoSaveUnguarded ==
  /\ pc = "ready"
  /\ storage' = saveToLocalStorage([ exercises |-> exercises, blocks |-> blocks,
                                     layoutOrder |-> layoutOrder ])
  /\ UNCHANGED <<exercises, blocks, layoutOrder, now>>
  /\ RunnerUnchanged
  /\ Rendered

\* The auto-save timeout fires.  It is armed by every change of the data, and
\* it writes what Save Now would write at the same moment, unless the session
\* has neither an exercise nor a block.
AutoSave ==
  /\ pc = "ready"
  /\ IF exercises # <<>> \/ blocks # <<>>
       THEN storage' = saveToLocalStorage([ exercises |-> exercises, blocks |-> blocks,
                                            layoutOrder |-> layoutOrder ])
       ELSE UNCHANGED storage
  /\ UNCHANGED <<exercises, blocks, layoutOrder, now>>
  /\ RunnerUnchanged
  /\ Rendered

\* ExerciseForm.handleSubmit, then handleAddExercise: the form is shown above
\* the tabs.  The clock has advanced since it was last read.
handleAddExercise ==
  /\ pc = "ready"
  /\ now < PageOpened + MaxAdded
  /\ now' = now + 1
  /\ \E payload \in FormPayloads :
       LET exercise == Exercise(ToString(now'), payload, now', undefined)
       IN /\ exercises' = <<exercise>> \o exercises
          /\ layoutOrder' = IF exercise.blockId = undefined
                              THEN <<Item("exercise", exercise.id)>> \o layoutOrder
                              ELSE layoutOrder
  /\ UNCHANGED <<blocks, storage>>
  /\ RunnerUnchanged
  /\ Rendered

\* The remove button of an exercise card of the Edit tab.
handleRemoveExercise ==
  /\ pc = "ready"
  /\ activeTab = "flow"
  /\ \E k \in DOMAIN exercises :
       LET id == exercises[k].id
       IN /\ exercises' = SelectSeq(exercises, LAMBDA exercise : exercise.id # id)
          /\ layoutOrder' = SelectSeq(layoutOrder,
                                      LAMBDA item : ~(item.type = "exercise" /\ item.id = id))
  /\ UNCHANGED <<blocks, storage, now>>
  /\ RunnerUnchanged
  /\ Rendered

handleClearSession ==
  /\ pc = "ready"
  /\ exercises' = <<>>
  /\ blocks' = <<>>
  /\ layoutOrder' = <<>>
  /\ UNCHANGED <<storage, now>>
  /\ RunnerUnchanged
  /\ Rendered

handleManualSave ==
  /\ pc = "ready"
  /\ storage' = saveToLocalStorage([ exercises |-> exercises, blocks |-> blocks,
                                     layoutOrder |-> layoutOrder ])
  /\ UNCHANGED <<exercises, blocks, layoutOrder, now>>
  /\ RunnerUnchanged
  /\ Rendered

\* Mutant: a failed manual load falls back to the default session, as the load
\* on mount does.
handleManualLoadDefaults ==
  /\ pc = "ready"
  /\ LET result == loadFromLocalStorage
     IN IF result # undefined
          THEN setState(result[1])
          ELSE /\ exercises' = defaultExercises
               /\ blocks' = defaultBlocks
               /\ layoutOrder' = defaultLayoutOrder
  /\ UNCHANGED <<storage, now>>
  /\ RunnerUnchanged
  /\ Rendered

handleManualLoad ==
  /\ pc = "ready"
  /\ LET result == loadFromLocalStorage
     IN IF result # undefined
          THEN setState(result[1])
          ELSE UNCHANGED <<exercises, blocks, layoutOrder>>
  /\ UNCHANGED <<storage, now>>
  /\ RunnerUnchanged
  /\ Rendered

handleImportFile ==
  /\ pc = "ready"
  /\ \E file \in ImportFiles :
       LET result == importFromJson(file)
       IN IF result # undefined
            THEN setState(result[1])
            ELSE UNCHANGED <<exercises, blocks, layoutOrder>>
  /\ UNCHANGED <<storage, now>>
  /\ RunnerUnchanged
  /\ Rendered

\* A tab trigger: the content of the tab that is left is unmounted, and
\* RunWorkout starts from its initial state when the Run tab is entered.
SelectTab ==
  /\ pc = "ready"
  /\ \E tab \in {"list", "flow", "run"} :
       /\ tab # activeTab
       /\ activeTab' = tab
  /\ currentStepIndex' = 0
  /\ isRestTimerActive' = FALSE
  /\ restTimeRemaining' = 0
  /\ UNCHANGED <<exercises, blocks, layoutOrder, storage, now>>
  /\ Rendered

----------------------------------------------------------------------------
(* The session runner, RunWorkout.tsx *)

\* const currentStep = steps[currentStepIndex]
currentStep == steps[currentStepIndex + 1]

\* The step card and the navigation are rendered: steps.length > 0.
StepShown == pc = "ready" /\ activeTab = "run" /\ steps # <<>>

\* {(currentStep.restPeriod || currentStep.restAfter) && ...}
RestTimerShown ==
  StepShown /\ (TruthyStr(currentStep.restPeriod) \/ TruthyStr(currentStep.restAfter))

DataUnchanged == UNCHANGED <<exercises, blocks, layoutOrder, storage, activeTab, now>>

\* Mutant: next() at the last step wraps around to the first.
nextStepWrap ==
  /\ StepShown
  /\ currentStepIndex' = IF currentStepIndex < Len(steps) - 1 THEN currentStepIndex + 1 ELSE 0
  /\ isRestTimerActive' = FALSE
  /\ restTimeRemaining' = 0
  /\ DataUnchanged
  /\ Rendered

\* Mutant: next() moves the cursor and leaves the rest timer as it is.
nextStepKeepTimer ==
  /\ StepShown
  /\ IF currentStepIndex < Len(steps) - 1
       THEN currentStepIndex' = currentStepIndex + 1
       ELSE UNCHANGED currentStepIndex
  /\ UNCHANGED <<isRestTimerActive, restTimeRemaining>>
  /\ DataUnchanged
  /\ Rendered

\* Mutant: prev() resets the rest timer also when the cursor is at the first step.
prevStepResetAlways ==
  /\ StepShown
  /\ IF currentStepIndex > 0
       THEN currentStepIndex' = currentStepIndex - 1
       ELSE UNCHANGED currentStepIndex
  /\ isRestTimerActive' = FALSE
  /\ restTimeRemaining' = 0
  /\ DataUnchanged
  /\ Rendered

\* The Previous and Next buttons are disabled at the two ends; a call there
\* changes nothing, so the handlers are taken at every step that is shown.
nextStep ==
  /\ StepShown
  /\ IF currentStepIndex < Len(steps) - 1
       THEN /\ currentStepIndex' = currentStepIndex + 1
            /\ isRestTimerActive' = FALSE
            /\ restTimeRemaining' = 0
       ELSE UNCHANGED <<currentStepIndex, isRestTimerActive, restTimeRemaining>>
  /\ DataUnchanged
  /\ Rendered

prevStep ==
  /\ StepShown
  /\ IF currentStepIndex > 0
       THEN /\ currentStepIndex' = currentStepIndex - 1
            /\ isRestTimerActive' = FALSE
            /\ restTimeRemaining' = 0
       ELSE UNCHANGED <<currentStepIndex, isRestTimerActive, restTimeRemaining>>
  /\ DataUnchanged
  /\ Rendered

\* The Rest buttons, shown while the timer is not active and restTimeRemaining
\* is not positive: one for restPeriod, one for restAfter.
startRest ==
  /\ RestTimerShown
  /\ ~isRestTimerActive
  /\ ~(restTimeRemaining > 0)
  /\ \E duration \in {currentStep.restPeriod, currentStep.restAfter} :
       /\ TruthyStr(duration)
       /\ restTimeRemaining' = parseTimeToSeconds(duration[1])
  /\ isRestTimerActive' = TRUE
  /\ UNCHANGED currentStepIndex
  /\ DataUnchanged
  /\ Rendered

\* The Pause button, shown while the timer is active.
pauseRest ==
  /\ RestTimerShown
  /\ isRestTimerActive
  /\ isRestTimerActive' = FALSE
  /\ UNCHANGED <<currentStepIndex, restTimeRemaining>>
  /\ DataUnchanged
  /\ Rendered

\* The Resume button, shown while the timer is not active and restTimeRemaining > 0.
resumeRest ==
  /\ RestTimerShown
  /\ ~isRestTimerActive
  /\ restTimeRemaining > 0
  /\ isRestTimerActive' = TRUE
  /\ UNCHANGED <<currentStepIndex, restTimeRemaining>>
  /\ DataUnchanged
  /\ Rendered

\* The Skip button, shown while the timer is active: setRestTimeRemaining(0).
skipRest ==
  /\ RestTimerShown
  /\ isRestTimerActive
  /\ restTimeRemaining' = 0
  /\ UNCHANGED <<currentStepIndex, isRestTimerActive>>
  /\ DataUnchanged
  /\ Rendered

\* Mutant: the last tick writes 0 and leaves the timer active.
TickNoStop ==
  /\ pc = "ready"
  /\ activeTab = "run"
  /\ isRestTimerActive
  /\ restTimeRemaining > 0
  /\ restTimeRemaining' = restTimeRemaining - 1
  /\ UNCHANGED <<isRestTimerActive, currentStepIndex>>
  /\ DataUnchanged
  /\ Rendered

\* Mutant: the interval survives a pause.
TickWhilePaused ==
  /\ pc = "ready"
  /\ activeTab = "run"
  /\ restTimeRemaining > 0
  /\ IF restTimeRemaining <= 1
       THEN /\ isRestTimerActive' = FALSE
            /\ restTimeRemaining' = 0
       ELSE /\ restTimeRemaining' = restTimeRemaining - 1
            /\ UNCHANGED isRestTimerActive
  /\ UNCHANGED currentStepIndex
  /\ DataUnchanged
  /\ Rendered

\* The interval of the rest timer effect, which exists while RunWorkout is
\* mounted with isRestTimerActive && restTimeRemaining > 0.
Tick ==
  /\ pc = "ready"
  /\ activeTab = "run"
  /\ isRestTimerActive
  /\ restTimeRemaining > 0
  /\ IF restTimeRemaining <= 1
       THEN /\ isRestTimerActive' = FALSE
            /\ restTimeRemaining' = 0
       ELSE /\ restTimeRemaining' = restTimeRemaining - 1
            /\ UNCHANGED isRestTimerActive
  /\ UNCHANGED currentStepIndex
  /\ DataUnchanged
  /\ Rendered

Next ==
  \/ LoadOnMount
  \/ AutoSave
  \/ handleAddExercise
  \/ handleRemoveExercise
  \/ handleClearSession
  \/ handleManualSave
  \/ handleManualLoad
  \/ handleImportFile
  \/ SelectTab
  \/ nextStep
  \/ prevStep
  \/ startRest
  \/ pauseRest
  \/ resumeRest
  \/ skipRest
  \/ Tick

Spec == Init /\ [][Next]_vars

----------------------------------------------------------------------------
(* An undisturbed countdown: SpecCountdown *)

\* What the rest field of the block editor may hold (free text).
CountdownRests == { Str("1:30"), Str("2min"), Str("30s"), Str("3s"), Str("0:02") }

\* The default session, its block edited to a rest and a number of rounds, loaded
\* and shown on the Preview tab.
InitCountdown ==
  /\ now = PageOpened
  /\ exercises = defaultExercises
  /\ \E rest \in CountdownRests, rounds \in 2..MaxRounds :
       blocks = << [ defaultBlocks[1] EXCEPT !.restBetweenExercises = Some(rest),
                                             !.rounds = Some(rounds) ] >>
  /\ layoutOrder = defaultLayoutOrder
  /\ storage = undefined
  /\ activeTab = "list"
  /\ steps = <<>>
  /\ currentStepIndex = 0
  /\ isRestTimerActive = FALSE
  /\ restTimeRemaining = 0
  /\ pc = "ready"

\* The user starts rests and moves between steps and tabs, and never pauses or
\* skips; the data is left alone.
NextCountdown ==
  \/ SelectTab
  \/ nextStep
  \/ prevStep
  \/ startRest
  \/ Tick

\* setInterval fires as long as the interval exists.
SpecCountdown == InitCountdown /\ [][NextCountdown]_vars /\ WF_vars(Tick)

----------------------------------------------------------------------------
(* The durations of the rest timer: SpecDuration *)

\* What the rest field of the block editor may hold (free text): MM:SS, a number
\* with a unit of seconds or of minutes, a bare number, a word, a signed MM:SS.
DurationTexts ==
  { Str("1:30"), Str("0:05"), Str("30s"), Str("10 sec"), Str("45 seconds"), Str("2min"),
    Str("1 m"), Str("3 minutes"), Str("45"), Str("rest"), Str("-1:30") }

\* The default session, the rest of its block edited, loaded and shown on the
\* Preview tab.
InitDuration ==
  /\ now = PageOpened
  /\ exercises = defaultExercises
  /\ \E rest \in DurationTexts :
       blocks = << [ defaultBlocks[1] EXCEPT !.restBetweenExercises = Some(rest) ] >>
  /\ layoutOrder = defaultLayoutOrder
  /\ storage = undefined
  /\ activeTab = "list"
  /\ steps = <<>>
  /\ currentStepIndex = 0
  /\ isRestTimerActive = FALSE
  /\ restTimeRemaining = 0
  /\ pc = "ready"

\* The user opens the Run tab and uses the rest timer of the first step.
NextDuration ==
  \/ SelectTab
  \/ startRest
  \/ pauseRest
  \/ resumeRest
  \/ skipRest
  \/ Tick

SpecDuration == InitDuration /\ [][NextDuration]_vars

----------------------------------------------------------------------------
(* Editing the session: the handlers of the Index page behind the Edit tab *)

\* A slot of layoutOrder that holds undefined.
UndefinedItem == Item("undefined", "undefined")

\* Reading item.type of every entry does not throw.
LayoutReadable == \A i \in DOMAIN layoutOrder : layoutOrder[i] # UndefinedItem

\* layoutOrder.findIndex(item => item.type === itemType && item.id === itemId):
\* the 0-based index of the first match, -1 when there is none.
findIndex(layout, itemType, itemId) ==
  LET hits == {i \in DOMAIN layout : layout[i] = Item(itemType, itemId)}
  IN IF hits = {} THEN -1 ELSE (CHOOSE i \in hits : \A j \in hits : i <= j) - 1

\* The callback of findIndex reads item.type of an undefined entry before it
\* finds a match: the handler throws and nothing is set.
findIndexThrows(layout, itemType, itemId) ==
  \E i \in DOMAIN layout :
    /\ layout[i] = UndefinedItem
    /\ \A j \in 1..(i - 1) : layout[j] # Item(itemType, itemId)

\* [a[i], a[j]] = [a[j], a[i]] on a copy, for 0-based i and j.  An index of -1
\* reads undefined and writes a property that is no element of the array.
swapped(layout, i, j) ==
  LET read(k) == IF (k + 1) \in DOMAIN layout THEN layout[k + 1] ELSE UndefinedItem
  IN [k \in DOMAIN layout |->
        IF k = i + 1 THEN read(j) ELSE IF k = j + 1 THEN read(i) ELSE layout[k]]

\* The Edit tab is shown and stays shown.
Editing == pc = "ready" /\ activeTab = "flow"

\* WorkoutFlow.handleAddBlock with the name "Core" and the defaults of the dialog.
handleAddBlock ==
  /\ Editing
  /\ now < PageOpened + MaxAdded
  /\ now' = now + 1
  /\ LET block == [ id |-> ToString(now'), name |-> Str("Core"), type |-> "round",
                    exercises |-> <<>>, restBetweenExercises |-> undefined,
                    rounds |-> Some(3) ]
     IN /\ blocks' = Append(blocks, block)
        /\ layoutOrder' = Append(layoutOrder, Item("block", block.id))
  /\ UNCHANGED <<exercises, storage>>
  /\ RunnerUnchanged
  /\ Rendered

\* Mutant: the members of the removed block are detached and get no layout entry.
handleRemoveBlockNoEntries ==
  /\ Editing
  /\ LayoutReadable
  /\ \E k \in DOMAIN blocks :
       LET id == blocks[k].id
       IN /\ blocks' = SelectSeq(blocks, LAMBDA block : block.id # id)
          /\ exercises' = [i \in DOMAIN exercises |->
                             IF exercises[i].blockId = Some(id)
                               THEN [exercises[i] EXCEPT !.blockId = undefined]
                               ELSE exercises[i]]
          /\ layoutOrder' = SelectSeq(layoutOrder,
                                      LAMBDA item : ~(item.type = "block" /\ item.id = id))
  /\ UNCHANGED <<storage, now>>
  /\ RunnerUnchanged
  /\ Rendered

handleRemoveBlock ==
  /\ Editing
  /\ LayoutReadable
  /\ \E k \in DOMAIN blocks :
       LET id == blocks[k].id
           orphanedExercises == SelectSeq(exercises, LAMBDA ex : ex.blockId = Some(id))
       IN /\ blocks' = SelectSeq(blocks, LAMBDA block : block.id # id)
          /\ exercises' = [i \in DOMAIN exercises |->
                             IF exercises[i].blockId = Some(id)
                               THEN [exercises[i] EXCEPT !.blockId = undefined]
                               ELSE exercises[i]]
          /\ layoutOrder' =
               SelectSeq(layoutOrder, LAMBDA item : ~(item.type = "block" /\ item.id = id))
               \o [i \in DOMAIN orphanedExercises |->
                     Item("exercise", orphanedExercises[i].id)]
  /\ UNCHANGED <<storage, now>>
  /\ RunnerUnchanged
  /\ Rendered

\* handleUpdateExercise with an exercise of the session whose blockId was set to
\* a block of the session or cleared.
handleUpdateExercise ==
  /\ Editing
  /\ \E k \in DOMAIN exercises,
        b \in {undefined} \cup {Some(blocks[j].id) : j \in DOMAIN blocks} :
       LET updatedExercise == [exercises[k] EXCEPT !.blockId = b]
           oldExercise     == findById(exercises, updatedExercise.id)
           wasStandalone   == oldExercise[1].blockId = undefined
           isNowStandalone == updatedExercise.blockId = undefined
       IN /\ exercises' = [i \in DOMAIN exercises |->
                             IF exercises[i].id = updatedExercise.id
                               THEN updatedExercise ELSE exercises[i]]
          /\ IF oldExercise # undefined /\ wasStandalone /\ ~isNowStandalone
               THEN /\ LayoutReadable
                    /\ layoutOrder' =
                         SelectSeq(layoutOrder,
                                   LAMBDA item : ~(item.type = "exercise"
                                                   /\ item.id = updatedExercise.id))
             ELSE IF oldExercise # undefined /\ ~wasStandalone /\ isNowStandalone
               THEN layoutOrder' = Append(layoutOrder, Item("exercise", updatedExercise.id))
             ELSE UNCHANGED layoutOrder
  /\ UNCHANGED <<blocks, storage, now>>
  /\ RunnerUnchanged
  /\ Rendered

handleGroupExercise ==
  /\ Editing
  /\ \E k \in DOMAIN exercises, j \in DOMAIN blocks :
       LET exercise == exercises[k]
           blockId  == blocks[j].id
       IN /\ exercises' = [i \in DOMAIN exercises |->
                             IF exercises[i].id = exercise.id
                               THEN [exercise EXCEPT !.blockId = Some(blockId)]
                               ELSE exercises[i]]
          /\ IF exercise.blockId = undefined
               THEN /\ LayoutReadable
                    /\ layoutOrder' =
                         SelectSeq(layoutOrder,
                                   LAMBDA item : ~(item.type = "exercise"
                                                   /\ item.id = exercise.id))
               ELSE UNCHANGED layoutOrder
  /\ UNCHANGED <<blocks, storage, now>>
  /\ RunnerUnchanged
  /\ Rendered

handleUngroupExercise ==
  /\ Editing
  /\ \E k \in DOMAIN exercises :
       LET exercise == exercises[k]
       IN /\ exercise.blockId # undefined
          /\ exercises' = [i \in DOMAIN exercises |->
                             IF exercises[i].id = exercise.id
                               THEN [exercise EXCEPT !.blockId = undefined]
                               ELSE exercises[i]]
          /\ layoutOrder' = Append(layoutOrder, Item("exercise", exercise.id))
  /\ UNCHANGED <<blocks, storage, now>>
  /\ RunnerUnchanged
  /\ Rendered

\* The (itemType, itemId) a move may be called with: an exercise or a block of
\* the session.
MoveTargets ==
  {Item("exercise", exercises[i].id) : i \in DOMAIN exercises}
  \cup {Item("block", blocks[i].id) : i \in DOMAIN blocks}

handleMoveItemUp ==
  /\ Editing
  /\ \E item \in MoveTargets :
       LET currentIndex == findIndex(layoutOrder, item.type, item.id)
       IN /\ ~findIndexThrows(layoutOrder, item.type, item.id)
          /\ IF currentIndex > 0
               THEN layoutOrder' = swapped(layoutOrder, currentIndex - 1, currentIndex)
               ELSE UNCHANGED layoutOrder
  /\ UNCHANGED <<exercises, blocks, storage, now>>
  /\ RunnerUnchanged
  /\ Rendered

\* Mutant: an item that is not found is left alone.
handleMoveItemDownChecked ==
  /\ Editing
  /\ \E item \in MoveTargets :
       LET currentIndex == findIndex(layoutOrder, item.type, item.id)
       IN /\ ~findIndexThrows(layoutOrder, item.type, item.id)
          /\ IF currentIndex >= 0 /\ currentIndex < Len(layoutOrder) - 1
               THEN layoutOrder' = swapped(layoutOrder, currentIndex, currentIndex + 1)
               ELSE UNCHANGED layoutOrder
  /\ UNCHANGED <<exercises, blocks, storage, now>>
  /\ RunnerUnchanged
  /\ Rendered

handleMoveItemDown ==
  /\ Editing
  /\ \E item \in MoveTargets :
       LET currentIndex == findIndex(layoutOrder, item.type, item.id)
       IN /\ ~findIndexThrows(layoutOrder, item.type, item.id)
          /\ IF currentIndex < Len(layoutOrder) - 1
               THEN layoutOrder' = swapped(layoutOrder, currentIndex, currentIndex + 1)
               ELSE UNCHANGED layoutOrder
  /\ UNCHANGED <<exercises, blocks, storage, now>>
  /\ RunnerUnchanged
  /\ Rendered

\* A handler whose setLayoutOrder updater reads item.type (remove exercise, remove
\* block, update across contexts, group) is called while layoutOrder holds
\* undefined: the updater throws during the render.
LayoutUpdaterThrows ==
  /\ Editing
  /\ ~LayoutReadable
  /\ pc' = "crashed"
  /\ UNCHANGED <<exercises, blocks, layoutOrder, storage, activeTab, steps,
                 currentStepIndex, isRestTimerActive, restTimeRemaining, now>>

\* The default session, loaded, with the Edit tab selected.
InitLayout ==
  /\ now = PageOpened
  /\ exercises = defaultExercises
  /\ blocks = defaultBlocks
  /\ layoutOrder = defaultLayoutOrder
  /\ storage = undefined
  /\ activeTab = "flow"
  /\ steps = <<>>
  /\ currentStepIndex = 0
  /\ isRestTimerActive = FALSE
  /\ restTimeRemaining = 0
  /\ pc = "ready"

NextLayout ==
  \/ handleAddExercise
  \/ LayoutReadable /\ handleRemoveExercise
  \/ handleAddBlock
  \/ handleRemoveBlock
  \/ handleUpdateExercise
  \/ handleGroupExercise
  \/ handleUngroupExercise
  \/ handleMoveItemUp
  \/ handleMoveItemDown
  \/ LayoutUpdaterThrows

SpecLayout == InitLayout /\ [][NextLayout]_vars

----------------------------------------------------------------------------
(* Reordering inside a block: SpecReorder *)

\* exercises.filter(ex => ex.blockId === exercise.blockId).sort(by timestamp)
membersOf(exs, blockId) == blockExercisesOf(exs, [ id |-> blockId ])

\* blockExercises.findIndex(ex => ex.id === exerciseId), 0-based.
indexOfExercise(list, exerciseId) ==
  LET hits == {i \in DOMAIN list : list[i].id = exerciseId}
  IN IF hits = {} THEN -1 ELSE (CHOOSE i \in hits : \A j \in hits : i <= j) - 1

\* setExercises(prev => prev.map(...)) of the two in-block moves.
withTimestamps(exs, exerciseId, timestamp, targetId, targetTimestamp) ==
  [i \in DOMAIN exs |->
     IF exs[i].id = exerciseId THEN [exs[i] EXCEPT !.timestamp = timestamp]
     ELSE IF exs[i].id = targetId THEN [exs[i] EXCEPT !.timestamp = targetTimestamp]
     ELSE exs[i]]

\* In-block moves in one run.
MaxMoves == 2

\* The clock of an in-block move: five seconds after it was last read.
MoveAllowed == now < PageOpened + MaxMoves * 5000

\* handleMoveExerciseInBlockUp(exerciseId); Date.now() is read when the
\* exercise is moved.
moveExerciseInBlockUp(exerciseId) ==
  LET exercise == findById(exercises, exerciseId)
  IN /\ Editing
     /\ MoveAllowed
     /\ exercise # undefined
     /\ exercise[1].blockId # undefined
     /\ LET blockExercises == membersOf(exercises, exercise[1].blockId[1])
            currentIndex   == indexOfExercise(blockExercises, exerciseId)
            targetExercise == blockExercises[currentIndex]
        IN IF currentIndex > 0
             THEN /\ now' = now + 5000
                  /\ exercises' =
                       withTimestamps(exercises,
                         exerciseId,
                         now' - (Len(blockExercises) - currentIndex + 1) * 1000,
                         targetExercise.id,
                         now' - (Len(blockExercises) - currentIndex) * 1000)
             ELSE UNCHANGED <<exercises, now>>
     /\ UNCHANGED <<blocks, layoutOrder, storage>>
     /\ RunnerUnchanged
     /\ Rendered

handleMoveExerciseInBlockUp ==
  \E k \in DOMAIN exercises : moveExerciseInBlockUp(exercises[k].id)

\* handleMoveExerciseInBlockDown(exerciseId)
moveExerciseInBlockDown(exerciseId) ==
  LET exercise == findById(exercises, exerciseId)
  IN /\ Editing
     /\ MoveAllowed
     /\ exercise # undefined
     /\ exercise[1].blockId # undefined
     /\ LET blockExercises == membersOf(exercises, exercise[1].blockId[1])
            currentIndex   == indexOfExercise(blockExercises, exerciseId)
            targetExercise == blockExercises[currentIndex + 2]
        IN IF currentIndex < Len(blockExercises) - 1
             THEN /\ now' = now + 5000
                  /\ exercises' =
                       withTimestamps(exercises,
                         exerciseId,
                         now' - (Len(blockExercises) - currentIndex - 1) * 1000,
                         targetExercise.id,
                         now' - (Len(blockExercises) - currentIndex) * 1000)
             ELSE UNCHANGED <<exercises, now>>
     /\ UNCHANGED <<blocks, layoutOrder, storage>>
     /\ RunnerUnchanged
     /\ Rendered

handleMoveExerciseInBlockDown ==
  \E k \in DOMAIN exercises : moveExerciseInBlockDown(exercises[k].id)

\* Exercises are added, grouped and ungrouped, and moved inside their blocks.
NextReorder ==
  \/ handleAddExercise
  \/ handleGroupExercise
  \/ handleUngroupExercise
  \/ handleMoveExerciseInBlockUp
  \/ handleMoveExerciseInBlockDown

SpecReorder == InitLayout /\ [][NextReorder]_vars

----------------------------------------------------------------------------
(* parseExerciseParameters, exerciseParser.ts *)

\* A regular expression is modelled by the match it produces at a start
\* position: the capture groups m1..m4, an absent group being the empty string
\* (no group of the parser can capture the empty string), and the position of
\* the last character matched.  The match of a pattern in a string is its match
\* at the leftmost position that has one.  The optional fraction (?:\.\d+)? of a
\* number is left out with the decimal point.
\*
\* Only({f(v) : v \in {e}}) is f of the value of e, e being computed once.
Only(S) == CHOOSE x \in S : TRUE

NoMatch == [ found |-> FALSE, m1 |-> <<>>, m2 |-> <<>>, m3 |-> <<>>, m4 |-> <<>>, end |-> 0 ]

Match(m1, m2, m3, m4, end) ==
  [ found |-> TRUE, m1 |-> m1, m2 |-> m2, m3 |-> m3, m4 |-> m4, end |-> end ]

\* The matches at the positions 1..Len(str), in order: the leftmost one.
firstMatch(ms) ==
  Only({ IF hits = {} THEN NoMatch
         ELSE ms[CHOOSE i \in hits : \A j \in hits : i <= j] :
         hits \in {{i \in DOMAIN ms : ms[i].found}} })

startsWithAt(str, p, word) ==
  /\ p >= 1
  /\ p + Len(word) - 1 <= Len(str)
  /\ SubSeq(str, p, p + Len(word) - 1) = word

\* \s+rest at p
restFollows(str, p) ==
  \E e \in {spacesEnd(str, p)} : e >= p /\ startsWithAt(str, e + 1, Str("rest"))

\* An alternation of words at p, its alternatives tried in the order of units;
\* with beforeRest the alternative must be followed by \s+rest.  <<>> if none.
firstUnit(str, p, units, beforeRest) ==
  Only({ IF hits = {} THEN <<>>
         ELSE units[CHOOSE k \in hits : \A j \in hits : k <= j] :
         hits \in {{k \in DOMAIN units :
                      /\ startsWithAt(str, p, units[k])
                      /\ beforeRest => restFollows(str, p + Len(units[k]))}} })

\* (s|sec|seconds?|m|min|minutes?)
restUnits ==
  << Str("s"), Str("sec"), Str("seconds"), Str("second"),
     Str("m"), Str("min"), Str("minutes"), Str("minute") >>

\* (seconds?|secs?|minutes?|mins?|hours?|hrs?)
timeUnits ==
  << Str("seconds"), Str("second"), Str("secs"), Str("sec"),
     Str("minutes"), Str("minute"), Str("mins"), Str("min"),
     Str("hours"), Str("hour"), Str("hrs"), Str("hr") >>

\* (miles?|km|kilometers?|meters?|m|yards?|yds?)
distanceUnits ==
  << Str("miles"), Str("mile"), Str("km"), Str("kilometers"), Str("kilometer"),
     Str("meters"), Str("meter"), Str("m"), Str("yards"), Str("yard"),
     Str("yds"), Str("yd") >>

\* (lbs?|kg|pounds?)
weightUnits ==
  << Str("lbs"), Str("lb"), Str("kg"), Str("pounds"), Str("pound") >>

\* \s*(unit) at p after a number that is the characters i..e of str
unitAfter(str, i, e, units, beforeRest) ==
  Only({ IF unit = <<>> THEN NoMatch
         ELSE Match(SubSeq(str, i, e), unit, <<>>, <<>>, 0) :
         unit \in {firstUnit(str, spacesEnd(str, e + 1) + 1, units, beforeRest)} })

\* (\d+)\s*(unit) at i, the unit followed by \s+rest when beforeRest
numberUnitAt(str, i, units, beforeRest) ==
  IF ~(i \in DOMAIN str /\ IsDigit(str[i])) THEN NoMatch
  ELSE Only({ unitAfter(str, i, e, units, beforeRest) : e \in {digitsEnd(str, i)} })

\* :(\d+) at p after a number that is the characters i..(p - 1) of str
colonAfter(str, i, p, beforeRest) ==
  Only({ IF /\ startsWithAt(str, p, Str(":"))
            /\ f >= p + 1
            /\ beforeRest => restFollows(str, f + 1)
           THEN Match(SubSeq(str, i, p - 1), SubSeq(str, p + 1, f), <<>>, <<>>, f)
           ELSE NoMatch :
         f \in {digitsEnd(str, p + 1)} })

\* (\d+):(\d+) at i, followed by \s+rest when beforeRest
colonAt(str, i, beforeRest) ==
  IF ~(i \in DOMAIN str /\ IsDigit(str[i])) THEN NoMatch
  ELSE Only({ colonAfter(str, i, e + 1, beforeRest) : e \in {digitsEnd(str, i)} })

\* rest\s+ at i: the position after it, 0 if it does not match
afterRestAt(str, i) ==
  IF ~startsWithAt(str, i, Str("rest")) THEN 0
  ELSE Only({ IF e >= i + 4 THEN e + 1 ELSE 0 : e \in {spacesEnd(str, i + 4)} })

\* /rest\s+(\d+)\s*(s|sec|seconds?|m|min|minutes?)/
restBeforeAt(str, i) ==
  Only({ IF p = 0 THEN NoMatch ELSE numberUnitAt(str, p, restUnits, FALSE) :
         p \in {afterRestAt(str, i)} })

\* /(\d+)\s*(s|sec|seconds?|m|min|minutes?)\s+rest/
restAfterAt(str, i) == numberUnitAt(str, i, restUnits, TRUE)

\* /rest\s+(\d+):(\d+)/
restColonBeforeAt(str, i) ==
  Only({ IF p = 0 THEN NoMatch ELSE colonAt(str, p, FALSE) :
         p \in {afterRestAt(str, i)} })

\* /(\d+):(\d+)\s+rest/
restColonAfterAt(str, i) == colonAt(str, i, TRUE)

\* The match of restPatterns[k - 1] in cleanInput.
restPatterns(cleanInput, k) ==
  CASE k = 1 -> firstMatch([i \in DOMAIN cleanInput |-> restBeforeAt(cleanInput, i)])
    [] k = 2 -> firstMatch([i \in DOMAIN cleanInput |-> restAfterAt(cleanInput, i)])
    [] k = 3 -> firstMatch([i \in DOMAIN cleanInput |-> restColonBeforeAt(cleanInput, i)])
    [] k = 4 -> firstMatch([i \in DOMAIN cleanInput |-> restColonAfterAt(cleanInput, i)])

\* The body of the loop for a pattern that matches.
restPeriodFrom(match) ==
  IF match.m3 # <<>> /\ match.m4 # <<>>
    THEN Some(match.m1 \o Str(":") \o match.m2)
  ELSE IF match.m1 # <<>> /\ match.m2 # <<>>
    THEN Some(match.m1 \o match.m2)
  ELSE undefined

\* The loop over restPatterns from pattern k on: the first pattern that matches
\* sets restPeriod and ends the loop.
RECURSIVE restLoop(_, _)
restLoop(cleanInput, k) ==
  IF k > 4 THEN undefined
  ELSE Only({ IF match.found THEN restPeriodFrom(match) ELSE restLoop(cleanInput, k + 1) :
              match \in {restPatterns(cleanInput, k)} })

restPeriodOf(cleanInput) == restLoop(cleanInput, 1)

\* ((?:\d+\/)*\d+) at b: the end of the longest list of numbers separated by
\* slashes (b - 1 if no number starts at b).  No shorter list can be followed
\* by a unit.
RECURSIVE weightsEnd(_, _)
weightsEnd(str, b) ==
  Only({ IF e < b THEN b - 1
         ELSE IF /\ startsWithAt(str, e + 1, Str("/"))
                 /\ (e + 2) \in DOMAIN str
                 /\ IsDigit(str[e + 2])
           THEN weightsEnd(str, e + 2)
         ELSE e :
         e \in {digitsEnd(str, b)} })

\* \s*(\d+) at p: the first and the last position of the number, <<0, 0>> if none
numberAfter(str, p) ==
  Only({ Only({ IF e >= q THEN <<q, e>> ELSE <<0, 0>> : e \in {digitsEnd(str, q)} }) :
         q \in {spacesEnd(str, p) + 1} })

\* (\d+)\s*x\s*(\d+) at i
setsRepsAt(str, i) ==
  IF ~(i \in DOMAIN str /\ IsDigit(str[i])) THEN NoMatch
  ELSE Only({ Only({ IF ~startsWithAt(str, x, Str("x")) THEN NoMatch
                     ELSE Only({ IF reps[1] = 0 THEN NoMatch
                                 ELSE Match(SubSeq(str, i, e1), SubSeq(str, reps[1], reps[2]),
                                            <<>>, <<>>, reps[2]) :
                                 reps \in {numberAfter(str, x + 1)} }) :
                     x \in {spacesEnd(str, e1 + 1) + 1} }) :
              e1 \in {digitsEnd(str, i)} })

\* (?:\s*@\s*(weights)\s*(lbs?|kg|pounds?))? at p, the weights a list separated by
\* slashes when progressive and one number otherwise: NoMatch when the group
\* takes no part in the match.
weightGroupAt(str, p, progressive) ==
  Only({ IF ~startsWithAt(str, a, Str("@")) THEN NoMatch
         ELSE Only({ IF w[1] = 0 THEN NoMatch
                     ELSE Only({ unitAfter(str, w[1], we, weightUnits, FALSE) :
                                 we \in {IF progressive THEN weightsEnd(str, w[1]) ELSE w[2]} }) :
                     w \in {numberAfter(str, a + 1)} }) :
         a \in {spacesEnd(str, p) + 1} })

\* (\d+)\s*x\s*(\d+) at i, followed by the optional weight group
setsRepsWeightAt(str, i, progressive) ==
  Only({ IF ~sr.found THEN NoMatch
         ELSE Only({ Match(sr.m1, sr.m2, wg.m1, wg.m2, 0) :
                     wg \in {weightGroupAt(str, sr.end + 1, progressive)} }) :
         sr \in {setsRepsAt(str, i)} })

\* /(\d+)\s*x\s*(\d+)(?:\s*@\s*((?:\d+\/)*\d+)\s*(lbs?|kg|pounds?))?/
progressiveStrengthPattern(str) ==
  firstMatch([i \in DOMAIN str |-> setsRepsWeightAt(str, i, TRUE)])

\* /(\d+)\s*x\s*(\d+)(?:\s*@\s*(\d+)\s*(lbs?|kg|pounds?))?/
strengthPattern(str) ==
  firstMatch([i \in DOMAIN str |-> setsRepsWeightAt(str, i, FALSE)])

\* (\d+)\s*(seconds?|secs?|minutes?|mins?|hours?|hrs?)|(\d+):(\d+) at i
timeAt(str, i) ==
  Only({ IF named.found THEN named
         ELSE Only({ IF colon.found THEN Match(<<>>, <<>>, colon.m1, colon.m2, 0)
                     ELSE NoMatch :
                     colon \in {colonAt(str, i, FALSE)} }) :
         named \in {numberUnitAt(str, i, timeUnits, FALSE)} })

timePattern(str) == firstMatch([i \in DOMAIN str |-> timeAt(str, i)])

\* /(\d+)\s*(miles?|km|kilometers?|meters?|m|yards?|yds?)/
distancePattern(str) ==
  firstMatch([i \in DOMAIN str |-> numberUnitAt(str, i, distanceUnits, FALSE)])

\* /(\d+)\s*(lbs?|kg|pounds?)/
weightPattern(str) ==
  firstMatch([i \in DOMAIN str |-> numberUnitAt(str, i, weightUnits, FALSE)])

\* /(\d+)\s*x\s*(\d+)/
setsRepsPattern(str) == firstMatch([i \in DOMAIN str |-> setsRepsAt(str, i)])

\* weightsString.split('/').map(w => `${w.trim()}${unit}`)
withUnit(weightsString, unit) ==
  Only({ Arr([k \in DOMAIN ws |-> trim(ws[k]) \o unit]) : ws \in {split(weightsString, "/")} })

\* Variant: a weight group without a slash becomes a list of one progressive weight.
progressiveBranchAlwaysList(match, restPeriod) ==
  IF match.m3 # <<>> /\ match.m4 # <<>>
    THEN PD(parseInt(match.m1), parseInt(match.m2), undefined,
            Some(withUnit(match.m3, match.m4)), undefined, undefined, restPeriod, "strength")
    ELSE PD(parseInt(match.m1), parseInt(match.m2), undefined, undefined,
            undefined, undefined, restPeriod, "strength")

\* The branch of progressiveStrengthPattern.
progressiveBranch(match, restPeriod) ==
  IF match.m3 # <<>> /\ match.m4 # <<>>
    THEN IF includes(match.m3, "/")
           THEN PD(parseInt(match.m1), parseInt(match.m2), undefined,
                   Some(withUnit(match.m3, match.m4)), undefined, undefined, restPeriod, "strength")
           ELSE PD(parseInt(match.m1), parseInt(match.m2),
                   Some(match.m3 \o Str(" ") \o match.m4), undefined,
                   undefined, undefined, restPeriod, "strength")
    ELSE PD(parseInt(match.m1), parseInt(match.m2), undefined, undefined,
            undefined, undefined, restPeriod, "strength")

\* The branch of strengthPattern.
strengthBranch(match, restPeriod) ==
  PD(parseInt(match.m1), parseInt(match.m2),
     IF match.m3 # <<>> /\ match.m4 # <<>>
       THEN Some(match.m3 \o Str(" ") \o match.m4) ELSE undefined,
     undefined, undefined, undefined, restPeriod, "strength")

\* The branch of timePattern.
timeBranch(match, restPeriod) ==
  PD(undefined, undefined, undefined, undefined,
     IF match.m3 # <<>> /\ match.m4 # <<>>
       THEN Some(match.m3 \o Str(":") \o match.m4)
     ELSE IF match.m1 # <<>> /\ match.m2 # <<>>
       THEN Some(match.m1 \o Str(" ") \o match.m2)
     ELSE undefined,
     undefined, restPeriod, "time")

\* The branch of distancePattern.
distanceBranch(match, restPeriod) ==
  PD(undefined, undefined, undefined, undefined, undefined,
     Some(match.m1 \o Str(" ") \o match.m2), restPeriod, "cardio")

\* The branch of setsRepsPattern.
setsRepsBranch(match, restPeriod) ==
  PD(parseInt(match.m1), parseInt(match.m2), undefined, undefined,
     undefined, undefined, restPeriod, "strength")

\* The branch of weightPattern.
weightBranch(match, restPeriod) ==
  PD(undefined, undefined, Some(match.m1 \o Str(" ") \o match.m2), undefined,
     undefined, undefined, restPeriod, "strength")

\* Variant of the chain: the distance pattern is tested before the time pattern.
classifyDistanceFirst(cleanInput, restPeriod) ==
  IF progressiveStrengthPattern(cleanInput).found
    THEN progressiveBranch(progressiveStrengthPattern(cleanInput), restPeriod)
  ELSE IF strengthPattern(cleanInput).found
    THEN strengthBranch(strengthPattern(cleanInput), restPeriod)
  ELSE IF distancePattern(cleanInput).found
    THEN distanceBranch(distancePattern(cleanInput), restPeriod)
  ELSE IF timePattern(cleanInput).found
    THEN timeBranch(timePattern(cleanInput), restPeriod)
  ELSE IF setsRepsPattern(cleanInput).found
    THEN setsRepsBranch(setsRepsPattern(cleanInput), restPeriod)
  ELSE IF weightPattern(cleanInput).found
    THEN weightBranch(weightPattern(cleanInput), restPeriod)
  ELSE PD(undefined, undefined, undefined, undefined, undefined, undefined,
          restPeriod, "unknown")

\* The chain of if / else if over the patterns: the first one that matches
\* cleanInput (test) sets its fields (match) and the type.
classify(cleanInput, restPeriod) ==
  IF progressiveStrengthPattern(cleanInput).found
    THEN progressiveBranch(progressiveStrengthPattern(cleanInput), restPeriod)
  ELSE IF strengthPattern(cleanInput).found
    THEN strengthBranch(strengthPattern(cleanInput), restPeriod)
  ELSE IF timePattern(cleanInput).found
    THEN timeBranch(timePattern(cleanInput), restPeriod)
  ELSE IF distancePattern(cleanInput).found
    THEN distanceBranch(distancePattern(cleanInput), restPeriod)
  ELSE IF setsRepsPattern(cleanInput).found
    THEN setsRepsBranch(setsRepsPattern(cleanInput), restPeriod)
  ELSE IF weightPattern(cleanInput).found
    THEN weightBranch(weightPattern(cleanInput), restPeriod)
  ELSE PD(undefined, undefined, undefined, undefined, undefined, undefined,
          restPeriod, "unknown")

parseExerciseParameters(input) ==
  Only({ Only({ classify(cleanInput, restPeriod) : restPeriod \in {restPeriodOf(cleanInput)} }) :
         cleanInput \in {trim(toLowerCase(input))} })

----------------------------------------------------------------------------
(* Parsing what the form submits: SpecParse *)

\* Array.prototype.join
RECURSIVE join(_, _)
join(arr, sep) ==
  IF arr = <<>> THEN <<>>
  ELSE IF Len(arr) = 1 THEN arr[1]
  ELSE arr[1] \o sep \o join(Tail(arr), sep)

\* The longest list of weights typed after the @.
MaxWeights == 3

WeightValues == {Str("40"), Str("135")}

WeightLists == UNION {[1..n -> WeightValues] : n \in 1..MaxWeights}

\* Texts of the shape <sets> x <reps> @ <weights><unit>, typed tight or spaced.
StrengthForms ==
  [ sets : {Str("3"), Str("12")}, x : {Str("x"), Str(" X ")}, reps : {Str("10")},
    spaced : BOOLEAN, weights : WeightLists, unit : {Str("kg"), Str("lbs")} ]

StrengthText(f) ==
  f.sets \o f.x \o f.reps \o (IF f.spaced THEN Str(" @ ") ELSE Str("@"))
    \o join(f.weights, Str("/")) \o (IF f.spaced THEN Str(" ") ELSE <<>>) \o f.unit

Clause(kind, text, pd) == [ kind |-> kind, text |-> text, pd |-> pd ]

\* One clause of each grammar of the parser, with the fields its rule sets.
MainClauses ==
  { Clause("strength", Str("3x10"),
           PD(Some(3), Some(10), undefined, undefined, undefined, undefined, undefined, "strength")),
    Clause("strength", Str("3x10 @ 135lbs"),
           PD(Some(3), Some(10), Some(Str("135 lbs")), undefined, undefined, undefined, undefined,
              "strength")),
    Clause("strength", Str("3x10 @ 40/50kg"),
           PD(Some(3), Some(10), undefined, Some(Arr(<<Str("40kg"), Str("50kg")>>)), undefined,
              undefined, undefined, "strength")),
    Clause("time", Str("30 seconds"),
           PD(undefined, undefined, undefined, undefined, Some(Str("30 seconds")), undefined,
              undefined, "time")),
    Clause("time", Str("5 minutes"),
           PD(undefined, undefined, undefined, undefined, Some(Str("5 minutes")), undefined,
              undefined, "time")),
    Clause("time", Str("1:30"),
           PD(undefined, undefined, undefined, undefined, Some(Str("1:30")), undefined,
              undefined, "time")),
    Clause("distance", Str("2 miles"),
           PD(undefined, undefined, undefined, undefined, undefined, Some(Str("2 miles")),
              undefined, "cardio")),
    Clause("distance", Str("5km"),
           PD(undefined, undefined, undefined, undefined, undefined, Some(Str("5 km")),
              undefined, "cardio")),
    Clause("distance", Str("100m"),
           PD(undefined, undefined, undefined, undefined, undefined, Some(Str("100 m")),
              undefined, "cardio")),
    Clause("weight", Str("135lbs"),
           PD(undefined, undefined, Some(Str("135 lbs")), undefined, undefined, undefined,
              undefined, "strength")),
    Clause("weight", Str("60 kg"),
           PD(undefined, undefined, Some(Str("60 kg")), undefined, undefined, undefined,
              undefined, "strength")) }

RestClause(text, restPeriod) == [ text |-> text, restPeriod |-> restPeriod ]

\* No rest clause, and the rest clauses whose number and unit read as nothing else.
PlainRests ==
  { RestClause(<<>>, undefined),
    RestClause(Str("rest 30s"), Some(Str("30s"))),
    RestClause(Str("45s rest"), Some(Str("45s"))) }

\* One clause, or two clauses of different grammars in either order, then a rest clause.
PriorityForms ==
  { [ main |-> <<c>>, rest |-> r ] : c \in MainClauses, r \in PlainRests }
    \cup { [ main |-> <<c[1], c[2]>>, rest |-> r ] :
             c \in {d \in MainClauses \X MainClauses : d[1].kind # d[2].kind},
             r \in PlainRests }

\* main, a space if both are there, rest
withRest(main, rest) ==
  IF main = <<>> THEN rest
  ELSE IF rest = <<>> THEN main
  ELSE main \o Str(" ") \o rest

PriorityText(f) ==
  withRest(join([k \in DOMAIN f.main |-> f.main[k].text], Str(" ")), f.rest.text)

\* The rest clauses of the examples, with and without a unit of time or distance.
RestTexts ==
  { Str("rest 2min"), Str("10 min rest"), Str("rest 1:30"), Str("1:30 rest"),
    Str("rest 30s"), Str("45s rest") }

\* A rest clause alone or after one main clause.
RestForms ==
  [ main : {<<>>} \cup {c.text : c \in MainClauses}, rest : RestTexts ]

RestText(f) == withRest(f.main, f.rest)

\* What is typed into the parameters field: the texts above, nothing, a space.
\* Texts whose unit is typed with capital letters.
CapitalTexts == { Str("3x10 @ 135LBS"), Str("30 Minutes"), Str("5 KM") }

\* Texts with zero sets or zero reps.
ZeroTexts == { Str("0x10"), Str("3x0") }

FormInputs ==
  {StrengthText(f) : f \in StrengthForms}
    \cup {PriorityText(f) : f \in PriorityForms}
    \cup {RestText(f) : f \in RestForms}
    \cup CapitalTexts
    \cup ZeroTexts
    \cup {<<>>, Str(" ")}

\* An empty session, loaded, with the form above the tabs.
InitParse ==
  /\ now = PageOpened
  /\ exercises = <<>>
  /\ blocks = <<>>
  /\ layoutOrder = <<>>
  /\ storage = undefined
  /\ activeTab = "list"
  /\ steps = <<>>
  /\ currentStepIndex = 0
  /\ isRestTimerActive = FALSE
  /\ restTimeRemaining = 0
  /\ pc = "ready"

\* ExerciseForm.handleSubmit with exerciseParams typed into the parameters field
\* and a name in the name field, then handleAddExercise of the Index page: the
\* first exercise of the session.
handleSubmit ==
  /\ pc = "ready"
  /\ exercises = <<>>
  /\ \E exerciseParams \in FormInputs :
       IF trim(exerciseParams) = <<>>
         THEN UNCHANGED <<exercises, layoutOrder, now>>
         ELSE /\ now' = now + 1
              /\ LET exercise == [ id |-> ToString(now'),
                                   originalInput |-> exerciseParams,
                                   parsedData |-> parseExerciseParameters(exerciseParams),
                                   timestamp |-> now',
                                   blockId |-> undefined,
                                   blockProgression |-> undefined ]
                 IN /\ exercises' = <<exercise>> \o exercises
                    /\ layoutOrder' = <<Item("exercise", exercise.id)>> \o layoutOrder
  /\ UNCHANGED <<blocks, storage>>
  /\ RunnerUnchanged
  /\ Rendered

NextParse == handleSubmit

SpecParse == InitParse /\ [][NextParse]_vars

----------------------------------------------------------------------------
(* Saving an edited session: SpecPersist *)

\* Changes of a round weight in one opening of the progression editor.
MaxEdits == 1

\* An exercise as ExerciseForm.handleSubmit makes it from the parameters typed.
ParsedExercise(id, originalInput, timestamp, blockId) ==
  [ id |-> id, originalInput |-> originalInput,
    parsedData |-> parseExerciseParameters(originalInput),
    timestamp |-> timestamp, blockId |-> blockId, blockProgression |-> undefined ]

\* The progression state of ExerciseInBlockEditor when it opens on the exercise:
\* the progressive weights of the exercise as round weights, or {}.
openProgression(exercise) ==
  [ roundWeights |-> exercise.parsedData.progressiveWeights, roundReps |-> undefined,
    roundTimes |-> undefined, roundDistances |-> undefined ]

\* ProgressionEditor.updateRoundWeight: a copy of roundWeights, or rounds empty
\* strings when there is none, with newWeights[roundIndex] = weight; the entries
\* between the end of the copy and roundIndex are never written.
updateRoundWeight(progression, rounds, roundIndex, weight) ==
  LET base == IF progression.roundWeights # undefined
                THEN progression.roundWeights[1]
                ELSE [i \in 1..rounds |-> Some(<<>>)]
      length == IF roundIndex + 1 > Len(base) THEN roundIndex + 1 ELSE Len(base)
      newWeights == [i \in 1..length |->
                       IF i = roundIndex + 1 THEN Some(weight)
                       ELSE IF i <= Len(base) THEN base[i] ELSE undefined]
  IN [progression EXCEPT !.roundWeights = Some(newWeights)]

\* The progression after the changes typed into the weight inputs, in order.
RECURSIVE typedProgression(_, _, _)
typedProgression(progression, rounds, edits) ==
  IF edits = <<>> THEN progression
  ELSE typedProgression(updateRoundWeight(progression, rounds, edits[1].roundIndex,
                                          edits[1].weight),
                        rounds, Tail(edits))

\* progression.roundWeights.filter(w => w.trim()) calls trim on undefined: the
\* copy made by the last change turned an entry never written into undefined.
filterThrows(progression, rounds, edits) ==
  /\ edits # <<>>
  /\ LET before == typedProgression(progression, rounds, SubSeq(edits, 1, Len(edits) - 1))
     IN /\ before.roundWeights # undefined
        /\ \E i \in DOMAIN before.roundWeights[1] : before.roundWeights[1][i] = undefined

\* roundWeights.filter(w => w.trim()): the callback is not called for an entry
\* never written.
filterWeights(roundWeights) ==
  SelectSeq(roundWeights, LAMBDA w : w # undefined /\ trim(w[1]) # <<>>)

\* The weight inputs of rounds 1..rounds, and the weight typed.
WeightEdits(rounds) == [ roundIndex : 0..(rounds - 1), weight : {Str("60kg")} ]

\* A session made with the form and the block dialog: "3x10 @ 40/50kg" and
\* "3x10", both members of block1, loaded and shown on the Edit tab.
InitPersist ==
  /\ now = PageOpened
  /\ exercises = << ParsedExercise("1", Str("3x10 @ 40/50kg"), now - 300000, Some("block1")),
                    ParsedExercise("2", Str("3x10"), now - 240000, Some("block1")) >>
  /\ blocks = defaultBlocks
  /\ layoutOrder = defaultLayoutOrder
  /\ storage = undefined
  /\ activeTab = "flow"
  /\ steps = <<>>
  /\ currentStepIndex = 0
  /\ isRestTimerActive = FALSE
  /\ restTimeRemaining = 0
  /\ pc = "ready"

\* The block dialog saved with another number of rounds: handleBlockSave, then
\* handleUpdateBlock of the Index page.
handleUpdateBlock ==
  /\ Editing
  /\ \E k \in DOMAIN blocks, rounds \in 1..(MaxRounds + 1) :
       LET updatedBlock == [blocks[k] EXCEPT !.rounds = Some(rounds)]
       IN blocks' = [i \in DOMAIN blocks |->
                       IF blocks[i].id = updatedBlock.id THEN updatedBlock ELSE blocks[i]]
  /\ UNCHANGED <<exercises, layoutOrder, storage, now>>
  /\ RunnerUnchanged
  /\ Rendered

\* ExerciseInBlockEditor opened on a member of a block that was not edited
\* before, round weights typed, then handleSave with onSave = handleUpdateExercise.
handleSave ==
  /\ Editing
  /\ \E k \in DOMAIN exercises, j \in DOMAIN blocks :
       LET exercise == exercises[k]
           block    == blocks[j]
           rounds   == IF block.rounds = undefined \/ block.rounds[1] = 0
                         THEN 1 ELSE block.rounds[1]
       IN /\ exercise.blockId = Some(block.id)
          /\ exercise.blockProgression = undefined
          /\ \E n \in 0..MaxEdits :
               \E edits \in [1..n -> WeightEdits(rounds)] :
                 LET progression == typedProgression(openProgression(exercise), rounds, edits)
                     parsedData  == parseExerciseParameters(exercise.originalInput)
                     updatedParsedData ==
                       [parsedData EXCEPT
                          !.sets = Some(1),
                          !.progressiveWeights =
                             IF progression.roundWeights # undefined
                               THEN Some(filterWeights(progression.roundWeights[1]))
                               ELSE parsedData.progressiveWeights]
                     updatedExercise ==
                       [exercise EXCEPT !.parsedData = updatedParsedData,
                                        !.blockProgression = Some(progression)]
                 IN /\ ~filterThrows(openProgression(exercise), rounds, edits)
                    /\ exercises' = [i \in DOMAIN exercises |->
                                       IF exercises[i].id = updatedExercise.id
                                         THEN updatedExercise ELSE exercises[i]]
  /\ UNCHANGED <<blocks, layoutOrder, storage, now>>
  /\ RunnerUnchanged
  /\ Rendered

NextPersist ==
  \/ handleUpdateBlock
  \/ handleSave
  \/ handleManualSave
  \/ handleManualLoad

SpecPersist == InitPersist /\ [][NextPersist]_vars

----------------------------------------------------------------------------
(* Properties of the expansion *)

\* The exercise a step was made from (ids are unique).
ExerciseOfStep(s) == CHOOSE e \in {exercises[i] : i \in DOMAIN exercises} : e.id = s.exerciseId

HasExercise(id) == \E i \in DOMAIN exercises : exercises[i].id = id

HasBlock(id) == \E i \in DOMAIN blocks : blocks[i].id = id

ExerciseWithId(id) == CHOOSE e \in {exercises[i] : i \in DOMAIN exercises} : e.id = id

BlockWithId(id) == CHOOSE b \in {blocks[i] : i \in DOMAIN blocks} : b.id = id

\* A layout entry that matches no entity.
Dangling(item) ==
  IF item.type = "exercise" THEN ~HasExercise(item.id) ELSE ~HasBlock(item.id)

\* Number of exercises whose blockId is the block id.
MemberCount(blockId) ==
  Cardinality({i \in DOMAIN exercises : exercises[i].blockId = Some(blockId)})

\* A step belongs to a layout entry: a context-free step of that exercise, or a
\* step with context of an exercise whose blockId is that block.
OwnedBy(s, item) ==
  IF item.type = "exercise"
    THEN s.context = undefined /\ s.exerciseId = item.id
    ELSE s.context # undefined /\ ExerciseOfStep(s).blockId = Some(item.id)

StepsOwnedBy(item) == Cardinality({p \in DOMAIN steps : OwnedBy(steps[p], item)})

\* Number of passes for a sets / rounds value n: n when n >= 1, one when n is
\* absent or 0, none when n is negative.
Passes(n) == IF n = undefined \/ n[1] = 0 THEN 1 ELSE IF n[1] < 0 THEN 0 ELSE n[1]

StepCount(item) ==
  IF Dangling(item) THEN 0
  ELSE IF item.type = "exercise"
    THEN Passes(ExerciseWithId(item.id).parsedData.sets)
    ELSE Passes(BlockWithId(item.id).rounds) * MemberCount(item.id)

\* Number of steps of the layout entries before entry i.
RECURSIVE Offset(_)
Offset(i) == IF i <= 1 THEN 0 ELSE Offset(i - 1) + StepCount(layoutOrder[i - 1])

\* The count as stated: a value n (absent: 1) stands for n passes, also when n = 0
\* (a negative value for none).
StatedPasses(n) == IF n = undefined THEN 1 ELSE IF n[1] < 0 THEN 0 ELSE n[1]

StatedCount(item) ==
  IF Dangling(item) THEN 0
  ELSE IF item.type = "exercise"
    THEN StatedPasses(ExerciseWithId(item.id).parsedData.sets)
    ELSE StatedPasses(BlockWithId(item.id).rounds) * MemberCount(item.id)

RECURSIVE StatedTotal(_)
StatedTotal(i) == IF i <= 1 THEN 0 ELSE StatedTotal(i - 1) + StatedCount(layoutOrder[i - 1])

C2_Order ==
  pc = "expanded" =>
    \A i \in DOMAIN layoutOrder :
      LET item == layoutOrder[i]
          base == Offset(i)
          n    == StepCount(item)
      IN /\ base + n <= Len(steps)
         /\ \A k \in 1..n : OwnedBy(steps[base + k], item)
         /\ (item.type = "block" /\ ~Dangling(item)) =>
              LET m == MemberCount(item.id)
                  R == Passes(BlockWithId(item.id).rounds)
              IN \A r \in 1..R : \A j \in 1..m :
                   LET q == base + (r - 1) * m + j
                   IN /\ steps[q].context[1].currentRound = r
                      /\ steps[q].exerciseId = steps[base + j].exerciseId
                      /\ j < m => ExerciseOfStep(steps[q]).timestamp
                                    <= ExerciseOfStep(steps[q + 1]).timestamp
                      /\ \A j2 \in 1..m :
                           j2 # j => steps[q - j + j2].exerciseId # steps[q].exerciseId

\* Two members listed against their timestamps, two rounds, a standalone entry after the block.
C2_Witness ==
  /\ pc = "expanded"
  /\ layoutOrder = <<Item("block", "block1"), Item("exercise", "3")>>
  /\ exercises[1].timestamp > exercises[2].timestamp
  /\ blocks[1].rounds = Some(2)
  /\ Len(steps) = 6
  /\ steps[1].exerciseId = "2" /\ steps[2].exerciseId = "1"
  /\ steps[3].exerciseId = "2" /\ steps[4].exerciseId = "1"
  /\ steps[5].exerciseId = "3"

\* The value the specification gives a numeric / string field of round r: the round
\* entry when present and non-zero / non-empty, else the base value.
StatedNum(table, base, r) ==
  IF table # undefined /\ TruthyNum(At(table[1], r - 1)) THEN At(table[1], r - 1) ELSE base

StatedStr(table, base, r) ==
  IF table # undefined /\ TruthyStr(At(table[1], r - 1)) THEN At(table[1], r - 1) ELSE base

ProgressionOf(ex) ==
  IF ex.blockProgression = undefined
    THEN [ roundWeights |-> undefined, roundReps |-> undefined,
           roundTimes |-> undefined, roundDistances |-> undefined ]
    ELSE ex.blockProgression[1]

\* C3: the step of round r of a block member carries round<Field>[r - 1] for reps, time
\* and distance when that entry is present and non-zero / non-empty, else the base value.
C3_StatedRoundValues ==
  pc = "expanded" =>
    \A p \in DOMAIN steps :
      steps[p].context # undefined =>
        LET ex == ExerciseOfStep(steps[p])
            r  == steps[p].context[1].currentRound
        IN /\ steps[p].reps = StatedNum(ProgressionOf(ex).roundReps, ex.parsedData.reps, r)
           /\ steps[p].time = StatedStr(ProgressionOf(ex).roundTimes, ex.parsedData.time, r)
           /\ steps[p].distance
                = StatedStr(ProgressionOf(ex).roundDistances, ex.parsedData.distance, r)

\* C4: the weight of the step of round r is the non-empty roundWeights[r - 1], else
\* progressiveWeights[min(r - 1, L - 1)] when progressiveWeights has L >= 1 entries,
\* else the base weight.
C4_StatedRoundWeight ==
  pc = "expanded" =>
    \A p \in DOMAIN steps :
      steps[p].context # undefined =>
        LET ex == ExerciseOfStep(steps[p])
            r  == steps[p].context[1].currentRound
            rw == ProgressionOf(ex).roundWeights
            pw == ex.parsedData.progressiveWeights
        IN steps[p].weight =
             IF rw # undefined /\ TruthyStr(At(rw[1], r - 1)) THEN At(rw[1], r - 1)
             ELSE IF pw # undefined /\ Len(pw[1]) >= 1
                    THEN At(pw[1], Min(r - 1, Len(pw[1]) - 1))
                    ELSE ex.parsedData.weight

\* C5: a step with context carries the block's restBetweenExercises as restAfter when
\* its exercise is not the last of the block's members, and no restAfter when it is;
\* it is the last exactly when the next step is not a step of the same round, so the
\* last step of a round carries no restAfter.
C5_RestAfter ==
  pc = "expanded" =>
    \A p \in DOMAIN steps :
      steps[p].context # undefined =>
        LET c     == steps[p].context[1]
            block == BlockWithId(ExerciseOfStep(steps[p]).blockId[1])
            last  == ~( /\ p < Len(steps)
                        /\ steps[p + 1].context # undefined
                        /\ steps[p + 1].context[1].currentRound = c.currentRound )
        IN /\ c.totalExercisesInBlock = MemberCount(block.id)
           /\ (c.exerciseInBlock < c.totalExercisesInBlock) <=> ~last
           /\ steps[p].restAfter = IF last THEN undefined ELSE block.restBetweenExercises

\* A block with a rest, two members and two rounds: the rest is attached inside a
\* round and not between the rounds.
C5_Witness ==
  /\ pc = "expanded"
  /\ blocks[1].restBetweenExercises = Some(Str("2min"))
  /\ Len(steps) >= 3
  /\ steps[1].restAfter = Some(Str("2min"))
  /\ steps[2].restAfter = undefined
  /\ steps[2].context # undefined /\ steps[3].context # undefined
  /\ steps[2].context[1].currentRound = 1
  /\ steps[3].context[1].currentRound = 2

\* C6: the steps of a standalone entry are, for k = 1..n, the exercise's base reps,
\* weight, time, distance and restPeriod with the id <exerciseId>-set-<k>, without
\* context and without restAfter; blockProgression and progressiveWeights play no part.
C6_StandaloneSteps ==
  pc = "expanded" =>
    \A i \in DOMAIN layoutOrder :
      (layoutOrder[i].type = "exercise" /\ ~Dangling(layoutOrder[i])) =>
        LET ex == ExerciseWithId(layoutOrder[i].id)
        IN \A k \in 1..StepCount(layoutOrder[i]) :
             steps[Offset(i) + k] =
               [ id         |-> <<ex.id, "-set-", k>>,
                 exerciseId |-> ex.id,
                 reps       |-> ex.parsedData.reps,
                 weight     |-> ex.parsedData.weight,
                 time       |-> ex.parsedData.time,
                 distance   |-> ex.parsedData.distance,
                 restPeriod |-> ex.parsedData.restPeriod,
                 context    |-> undefined,
                 restAfter  |-> undefined ]

\* A standalone exercise with progressiveWeights and a blockProgression, two sets:
\* its steps have no weight.
C6_Witness ==
  /\ pc = "expanded"
  /\ \E p \in DOMAIN steps :
       /\ steps[p].context = undefined
       /\ steps[p].id[3] = 2
       /\ steps[p].weight = undefined
       /\ ExerciseOfStep(steps[p]).parsedData.progressiveWeights # undefined
       /\ ExerciseOfStep(steps[p]).blockProgression # undefined

\* C7: a block whose rounds is absent, zero or negative is expanded as one round: one
\* step per member, with currentRound = totalRounds = 1.
C7_StatedDefaultRounds ==
  pc = "expanded" =>
    \A i \in DOMAIN layoutOrder :
      LET item == layoutOrder[i]
      IN (item.type = "block" /\ ~Dangling(item)
          /\ ~(BlockWithId(item.id).rounds # undefined /\ BlockWithId(item.id).rounds[1] > 0)) =>
           \A e \in DOMAIN exercises :
             exercises[e].blockId = Some(item.id) =>
               /\ Cardinality({p \in DOMAIN steps :
                    steps[p].context # undefined /\ steps[p].exerciseId = exercises[e].id}) = 1
               /\ \A p \in DOMAIN steps :
                    (steps[p].context # undefined /\ steps[p].exerciseId = exercises[e].id) =>
                      /\ steps[p].context[1].currentRound = 1
                      /\ steps[p].context[1].totalRounds = 1

\* C8: the entries that match no entity contribute no step and change no other step:
\* the list is the one built from the layout without them.
C8_DanglingSkipped ==
  pc = "expanded" =>
    /\ steps = buildSteps(exercises, blocks,
                          SelectSeq(layoutOrder, LAMBDA item : ~Dangling(item)))
    /\ \A p \in DOMAIN steps : HasExercise(steps[p].exerciseId)

\* A dangling entry between two entries that have steps.
C8_Witness ==
  /\ pc = "expanded"
  /\ \E i, j, k \in DOMAIN layoutOrder :
       /\ i < j /\ j < k
       /\ StepCount(layoutOrder[i]) > 0
       /\ Dangling(layoutOrder[j])
       /\ StepCount(layoutOrder[k]) > 0
  /\ Len(steps) > 1

----------------------------------------------------------------------------
(* Properties of the session runner *)

\* C9: whenever the expanded step list is not empty, 0 <= currentStepIndex < steps.length,
\* so the current step is defined; as stated this is to hold under next(), prev() and
\* every change of the exercises / blocks / layoutOrder handed to the runner while it
\* stays shown (a manual load or an import of a smaller snapshot, a clear followed by
\* an add).
C9_StatedCursorBounds ==
  steps # <<>> => currentStepIndex \in 0..(Len(steps) - 1)

\* C10: next() increases currentStepIndex by exactly 1 below the last step and leaves it
\* unchanged at the last step; prev() decreases it by exactly 1 above index 0 and leaves
\* it unchanged at index 0; the step list is the same before and after, the step view
\* stays shown (there is no completed state), and while the runner is shown over the
\* same steps the cursor never moves by more than one position (no wrap-around).
C10_Navigation ==
  [][ /\ nextStep =>
           /\ currentStepIndex' = IF currentStepIndex < Len(steps) - 1
                                    THEN currentStepIndex + 1 ELSE currentStepIndex
           /\ steps' = steps
           /\ StepShown'
      /\ prevStep =>
           /\ currentStepIndex' = IF currentStepIndex > 0
                                    THEN currentStepIndex - 1 ELSE currentStepIndex
           /\ steps' = steps
           /\ StepShown'
      /\ (StepShown /\ StepShown' /\ steps' = steps) =>
           /\ currentStepIndex' - currentStepIndex \in {-1, 0, 1}
           /\ currentStepIndex' \in 0..(Len(steps) - 1)
    ]_vars

\* The cursor stands on the last of the six steps of the default block, which only
\* five calls of next() from the first step reach.
C10_Witness ==
  /\ StepShown
  /\ Len(steps) = 6
  /\ currentStepIndex = Len(steps) - 1

\* The interval of the rest timer effect exists.
TickPending == pc = "ready" /\ activeTab = "run" /\ isRestTimerActive /\ restTimeRemaining > 0

\* C11: every change of currentStepIndex made by next() or prev() resets the rest timer:
\* right after it the timer is not active and restTimeRemaining = 0, whatever the timer
\* was before (running, paused or inactive), and no tick is pending, so a tick only ever
\* acts on a timer started at the step that is shown.
C11_NavigationResetsTimer ==
  [][ /\ ((nextStep \/ prevStep) /\ currentStepIndex' # currentStepIndex) =>
           /\ ~isRestTimerActive'
           /\ restTimeRemaining' = 0
           /\ ~TickPending'
      /\ (activeTab = "run" /\ activeTab' = "run" /\ currentStepIndex' # currentStepIndex) =>
           /\ nextStep \/ prevStep
           /\ ~isRestTimerActive'
           /\ restTimeRemaining' = 0
      /\ Tick => TickPending
    ]_vars

\* A rest that has counted down part of its two minutes, running or paused, on the
\* third step of the default block: next() and prev() both change the index from here.
C11_Witness ==
  /\ StepShown
  /\ Len(steps) = 6
  /\ currentStepIndex = 2
  /\ restTimeRemaining > 0
  /\ restTimeRemaining < 120

\* The whole seconds a duration of the model stands for.
StatedSeconds(d) ==
  CASE d = Str("1:30") -> 90
    [] d = Str("2min") -> 120
    [] d = Str("30s") -> 30
    [] d = Str("3s") -> 3
    [] d = Str("0:02") -> 2

\* C12: start(d), for d standing for n >= 1 whole seconds, makes the timer active with
\* restTimeRemaining = n; every tick acts on restTimeRemaining >= 1, decreases it by
\* exactly 1 and leaves the timer active exactly when the result is positive, so an
\* undisturbed countdown is inactive with restTimeRemaining = 0 after exactly n ticks
\* and not before; under fair ticking an active timer eventually is inactive with
\* restTimeRemaining = 0.
C12_Countdown ==
  /\ [][ /\ startRest =>
              /\ isRestTimerActive'
              /\ restTimeRemaining' >= 1
              /\ \E d \in {currentStep.restPeriod, currentStep.restAfter} :
                   d # undefined /\ restTimeRemaining' = StatedSeconds(d[1])
         /\ Tick =>
              /\ restTimeRemaining >= 1
              /\ restTimeRemaining' = restTimeRemaining - 1
              /\ isRestTimerActive' = (restTimeRemaining' > 0)
       ]_vars
  /\ (isRestTimerActive ~> (~isRestTimerActive /\ restTimeRemaining = 0))

\* One second is left of a rest of "1:30": 89 ticks have acted since start("1:30").
C12_Witness ==
  /\ StepShown
  /\ currentStep.restAfter = Some(Str("1:30"))
  /\ isRestTimerActive
  /\ restTimeRemaining = 1

C14_StatedSkip ==
  [][ skipRest => (restTimeRemaining' = 0 /\ ~isRestTimerActive') ]_vars

----------------------------------------------------------------------------
(* Properties of the editing handlers *)

\* Number of entries of layoutOrder equal to the item.
Entries(item) == Cardinality({i \in DOMAIN layoutOrder : layoutOrder[i] = item})

\* C15: as stated, after any sequence of add exercise, remove exercise, add block,
\* remove block, update exercise, group, ungroup and move item up / down from the
\* default state, layoutOrder holds every standalone exercise exactly once as an
\* exercise entry, every block with at least one member exactly once as a block
\* entry, and no exercise entry for an exercise that has a blockId.
C15_StatedLayoutInvariant ==
  /\ \A i \in DOMAIN exercises :
       Entries(Item("exercise", exercises[i].id)) =
         IF exercises[i].blockId = undefined THEN 1 ELSE 0
  /\ \A j \in DOMAIN blocks :
       MemberCount(blocks[j].id) >= 1 => Entries(Item("block", blocks[j].id)) = 1

OrderOf(exs, blockId) ==
  LET members == membersOf(exs, blockId) IN [i \in DOMAIN members |-> members[i].id]

\* The order with the entries at the 1-based positions i and j exchanged.
Exchanged(order, i, j) ==
  [k \in DOMAIN order |-> IF k = i THEN order[j] ELSE IF k = j THEN order[i] ELSE order[k]]

PositionIn(order, id) == CHOOSE i \in DOMAIN order : order[i] = id

\* C17: as stated, moveExerciseInBlockUp(e) for e at a position after the first of its
\* block's ascending-timestamp order results in that order with e and its predecessor
\* exchanged and every other member where it was, and moveExerciseInBlockDown(e)
\* likewise with the successor, whatever the timestamps of the other members are.
C17_StatedReorder ==
  [][ \A k \in DOMAIN exercises :
        LET e      == exercises[k]
            before == OrderOf(exercises, e.blockId[1])
            after  == OrderOf(exercises', e.blockId[1])
            i      == PositionIn(before, e.id)
        IN /\ (moveExerciseInBlockUp(e.id) /\ i > 1) =>
                after = Exchanged(before, i - 1, i)
           /\ (moveExerciseInBlockDown(e.id) /\ i < Len(before)) =>
                after = Exchanged(before, i, i + 1)
    ]_vars

----------------------------------------------------------------------------
(* Properties of the parser *)

\* The fields of a parser result other than restPeriod.
MainFields(pd) == [pd EXCEPT !.restPeriod = undefined]

\* C18: an exercise submitted as <sets> x <reps> @ <weights><unit> has sets, reps and
\* type strength; with N >= 2 weights separated by slashes it has progressiveWeights,
\* the N weights each joined with the unit in the order typed, and no weight; with one
\* weight it has weight "<value> <unit>" and no progressiveWeights.  No parser result
\* has both weight and progressiveWeights.
C18_WeightOrProgressive ==
  \A k \in DOMAIN exercises :
    LET pd == exercises[k].parsedData
    IN /\ ~(pd.weight # undefined /\ pd.progressiveWeights # undefined)
       /\ \A f \in StrengthForms :
            exercises[k].originalInput = StrengthText(f) =>
              /\ pd.sets = Some(digitsValue(f.sets))
              /\ pd.reps = Some(digitsValue(f.reps))
              /\ pd.type = "strength"
              /\ IF Len(f.weights) >= 2
                   THEN /\ pd.weight = undefined
                        /\ pd.progressiveWeights =
                             Some(Arr([j \in DOMAIN f.weights |-> f.weights[j] \o f.unit]))
                   ELSE /\ pd.weight = Some(f.weights[1] \o Str(" ") \o f.unit)
                        /\ pd.progressiveWeights = undefined

\* An exercise submitted with the longest list of weights, typed spaced and with a
\* capital X, has that many progressive weights.
C18_Witness ==
  \E k \in DOMAIN exercises :
    /\ \E f \in StrengthForms :
         /\ Len(f.weights) = MaxWeights
         /\ f.spaced
         /\ f.x = Str(" X ")
         /\ exercises[k].originalInput = StrengthText(f)
    /\ exercises[k].parsedData.progressiveWeights # undefined
    /\ Len(exercises[k].parsedData.progressiveWeights[1]) = MaxWeights

\* The place of a clause's grammar in the order of the rules.  A sets-x-reps clause,
\* with or without a weight, matches the first rule, whose weight group is optional.
Rank(kind) ==
  CASE kind = "strength" -> 1 [] kind = "time" -> 2 [] kind = "distance" -> 3 [] kind = "weight" -> 4

\* The clause of the text whose rule comes first.
Winner(f) ==
  f.main[CHOOSE k \in DOMAIN f.main :
           \A j \in DOMAIN f.main : Rank(f.main[k].kind) <= Rank(f.main[j].kind)]

\* C19: an exercise submitted as one clause, or as two clauses of different grammars in
\* either order, with or without a rest clause that reads as nothing else, has the
\* type and the fields of the clause whose rule comes first in the order strength, time,
\* distance, weight only, no field of the other clause, and the restPeriod of the rest
\* clause.
C19_Priority ==
  \A k \in DOMAIN exercises :
    \A f \in PriorityForms :
      exercises[k].originalInput = PriorityText(f) =>
        exercises[k].parsedData = [Winner(f).pd EXCEPT !.restPeriod = f.rest.restPeriod]

\* An exercise submitted as a distance, then a time, then a rest clause: of type time,
\* without distance, with the rest period.
C19_Witness ==
  \E k \in DOMAIN exercises :
    /\ \E f \in PriorityForms :
         /\ Len(f.main) = 2
         /\ f.main[1].kind = "distance"
         /\ f.main[2].kind = "time"
         /\ f.rest.restPeriod # undefined
         /\ exercises[k].originalInput = PriorityText(f)
    /\ exercises[k].parsedData.type = "time"
    /\ exercises[k].parsedData.distance = undefined
    /\ exercises[k].parsedData.restPeriod # undefined

\* C20 as stated: the type and the main fields of an exercise submitted with a rest
\* clause are those of the text without the rest clause, and a rest clause alone gives
\* type unknown with restPeriod set and no other field.
C20_StatedRestTakesNoPart ==
  \A k \in DOMAIN exercises :
    \A f \in RestForms :
      exercises[k].originalInput = RestText(f) =>
        /\ MainFields(exercises[k].parsedData) = MainFields(parseExerciseParameters(f.main))
        /\ f.main = <<>> =>
             /\ exercises[k].parsedData.type = "unknown"
             /\ exercises[k].parsedData.restPeriod # undefined

\* The restPeriod C21 states for a rest clause: MM:SS with its colon, the number
\* followed by the unit otherwise.
StatedRestPeriod(rest) ==
  CASE rest = Str("rest 1:30")   -> Str("1:30")
    [] rest = Str("1:30 rest")   -> Str("1:30")
    [] rest = Str("rest 2min")   -> Str("2min")
    [] rest = Str("10 min rest") -> Str("10min")
    [] rest = Str("rest 30s")    -> Str("30s")
    [] rest = Str("45s rest")    -> Str("45s")

\* C21 as stated: an exercise submitted as a rest clause alone has the restPeriod
\* "MM:SS" for rest MM:SS and MM:SS rest, which the rest timer reads as MM * 60 + SS
\* seconds, and the number followed by the unit for the other rest clauses.
C21_StatedRestPeriodShape ==
  \A k \in DOMAIN exercises :
    \A rest \in RestTexts :
      exercises[k].originalInput = rest =>
        /\ exercises[k].parsedData.restPeriod = Some(StatedRestPeriod(rest))
        /\ includes(rest, ":") =>
             parseTimeToSeconds(exercises[k].parsedData.restPeriod[1]) = 90

\* C22 as stated: the unit of a weight, a time or a distance of an exercise is the
\* unit as it was typed, capital letters included.
C22_StatedUnitsVerbatim ==
  \A k \in DOMAIN exercises :
    LET pd == exercises[k].parsedData
    IN /\ exercises[k].originalInput = Str("3x10 @ 135LBS") => pd.weight = Some(Str("135 LBS"))
       /\ exercises[k].originalInput = Str("30 Minutes") => pd.time = Some(Str("30 Minutes"))
       /\ exercises[k].originalInput = Str("5 KM") => pd.distance = Some(Str("5 KM"))

\* C27 as stated: the sets and the reps of a submitted exercise, when present, are at
\* least 1, and the exercise alone expands to as many steps as it has sets.
C27_StatedPositiveSetsReps ==
  \A k \in DOMAIN exercises :
    LET pd == exercises[k].parsedData
    IN /\ pd.sets # undefined => pd.sets[1] >= 1
       /\ pd.reps # undefined => pd.reps[1] >= 1
       /\ pd.sets # undefined =>
            Len(buildSteps(<<exercises[k]>>, <<>>, <<Item("exercise", exercises[k].id)>>))
              = pd.sets[1]

\* C22: the unit of a weight, a time or a distance of an exercise is the unit that was
\* typed, in lower-case letters: the text is lower-cased before it is matched, and the
\* unit is not converted to another unit.
C22_UnitsLowerCased ==
  \A k \in DOMAIN exercises :
    LET pd == exercises[k].parsedData
    IN /\ exercises[k].originalInput = Str("3x10 @ 135LBS") => pd.weight = Some(Str("135 lbs"))
       /\ exercises[k].originalInput = Str("30 Minutes") => pd.time = Some(Str("30 minutes"))
       /\ exercises[k].originalInput = Str("5 KM") => pd.distance = Some(Str("5 km"))
       /\ \A field \in {pd.weight, pd.time, pd.distance} :
            field # undefined => toLowerCase(field[1]) = field[1]

C22_Witness ==
  \E k \in DOMAIN exercises :
    /\ exercises[k].originalInput = Str("3x10 @ 135LBS")
    /\ exercises[k].parsedData.weight = Some(Str("135 lbs"))

\* C25 as stated: in every state the rest timer is inactive with restTimeRemaining = 0,
\* running with restTimeRemaining > 0 or paused with restTimeRemaining > 0: it is never
\* active with restTimeRemaining = 0, and restTimeRemaining is never negative.
C25_StatedTimerStates ==
  /\ restTimeRemaining >= 0
  /\ ~(isRestTimerActive /\ restTimeRemaining = 0)

\* C29: next() at the last step and prev() at the first step change neither
\* currentStepIndex nor the rest timer, so a timer that is running or paused there keeps
\* its state and its restTimeRemaining; next() and prev() change the timer only when
\* they change currentStepIndex.
C29_BoundaryNavigationNoOp ==
  [][ /\ (nextStep /\ ~(currentStepIndex < Len(steps) - 1)) =>
           UNCHANGED <<currentStepIndex, isRestTimerActive, restTimeRemaining>>
      /\ (prevStep /\ ~(currentStepIndex > 0)) =>
           UNCHANGED <<currentStepIndex, isRestTimerActive, restTimeRemaining>>
      /\ ((nextStep \/ prevStep) /\ currentStepIndex' = currentStepIndex) =>
           UNCHANGED <<isRestTimerActive, restTimeRemaining>>
    ]_vars

\* A rest that is counting down or paused at the first step, where prev() is a call at
\* the boundary.
C29_Witness ==
  /\ StepShown
  /\ currentStepIndex = 0
  /\ restTimeRemaining > 0

\* Number of entries of the layout equal to the item.
EntriesOf(layout, item) == Cardinality({i \in DOMAIN layout : layout[i] = item})

\* C28 as stated: the entries of layoutOrder after a move item up or a move item down
\* are a permutation of the entries before it, a changed layoutOrder differs by one swap
\* of two adjacent entries, and no undefined entry is introduced.
C28_StatedMovePermutes ==
  [][ (handleMoveItemUp \/ handleMoveItemDown) =>
        /\ Len(layoutOrder') = Len(layoutOrder)
        /\ \A i \in DOMAIN layoutOrder :
             EntriesOf(layoutOrder', layoutOrder[i]) = EntriesOf(layoutOrder, layoutOrder[i])
        /\ EntriesOf(layoutOrder', UndefinedItem) = EntriesOf(layoutOrder, UndefinedItem)
        /\ layoutOrder' # layoutOrder =>
             \E i \in 1..(Len(layoutOrder) - 1) :
               layoutOrder' = [layoutOrder EXCEPT ![i] = layoutOrder[i + 1],
                                                  ![i + 1] = layoutOrder[i]]
    ]_vars

\* The session has neither an exercise nor a block.
EmptySession == exercises = <<>> /\ blocks = <<>>

\* C30: the auto-save writes the snapshot only when the session has an exercise or a
\* block; no step taken before the load on mount has completed changes the stored
\* snapshot; Clear Session empties the session and leaves the stored snapshot, and the
\* next load of a stored snapshot sets the session to the state that snapshot holds.
C30_AutoSaveKeepsSnapshot ==
  [][ /\ (AutoSave /\ EmptySession) => UNCHANGED storage
      /\ (AutoSave /\ ~EmptySession) =>
           storage' = Some(serializeState([ exercises |-> exercises, blocks |-> blocks,
                                            layoutOrder |-> layoutOrder ]))
      /\ pc = "mount" => UNCHANGED storage
      /\ handleClearSession => (EmptySession' /\ UNCHANGED storage)
      /\ (handleManualLoad /\ loadFromLocalStorage # undefined) =>
           /\ exercises' = deserializeState(storage[1]).exercises
           /\ blocks' = storage[1].blocks
           /\ layoutOrder' = storage[1].layoutOrder
    ]_vars

\* The session was cleared while a snapshot with an exercise is stored: the auto-save
\* timeout fires on the empty session.
C30_Witness ==
  /\ pc = "ready"
  /\ EmptySession
  /\ storage # undefined
  /\ storage[1].exercises # <<>>

\* C24: a load of a missing or invalid stored item and an import of a file that is not
\* JSON or not a valid snapshot give a failure with an error text, and a success has
\* none; a failed manual load and a failed import leave exercises, blocks and
\* layoutOrder as they were and the page rendered.
C24_FailedLoadKeepsState ==
  [][ /\ (loadFromLocalStorage = undefined) <=> (loadError # undefined)
      /\ \A file \in ImportFiles : (importFromJson(file) = undefined) <=> (importError(file) # undefined)
      /\ (handleManualLoad /\ loadFromLocalStorage = undefined) =>
           /\ UNCHANGED <<exercises, blocks, layoutOrder, storage>>
           /\ pc' = pc
      /\ (handleImportFile /\ \A file \in ImportFiles :
                                importFromJson(file) # undefined =>
                                  ~( /\ exercises' = importFromJson(file)[1].exercises
                                     /\ blocks' = importFromJson(file)[1].blocks
                                     /\ layoutOrder' = importFromJson(file)[1].layoutOrder )) =>
           /\ UNCHANGED <<exercises, blocks, layoutOrder, storage>>
           /\ pc' = pc
    ]_vars

\* A session that is not the default one while the stored item fails the schema: the
\* manual load fails here.
C24_Witness ==
  /\ pc = "ready"
  /\ storage # undefined
  /\ loadFromLocalStorage = undefined
  /\ exercises # defaultExercises
  /\ exercises # <<>>

\* The seconds C26 states for a duration of the model that is not signed.
StatedDuration(d) ==
  CASE d = Str("1:30")       -> 90
    [] d = Str("0:05")       -> 5
    [] d = Str("30s")        -> 30
    [] d = Str("10 sec")     -> 10
    [] d = Str("45 seconds") -> 45
    [] d = Str("2min")       -> 120
    [] d = Str("1 m")        -> 60
    [] d = Str("3 minutes")  -> 180
    [] d = Str("45")         -> 60
    [] d = Str("rest")       -> 60
    [] OTHER                 -> parseTimeToSeconds(d)

\* C26 as stated: a rest started with "M:S" counts M * 60 + S seconds, with a number and
\* a unit of seconds the number, with a number and a unit of minutes 60 times the
\* number, with any other text 60 seconds, and the seconds are never negative.
C26_StatedDurations ==
  [][ startRest =>
        /\ \E d \in {currentStep.restPeriod, currentStep.restAfter} :
             d # undefined /\ restTimeRemaining' = StatedDuration(d[1])
        /\ restTimeRemaining' >= 0
    ]_vars

\* What a load returns right after a save of the session as it is.
SavedAndLoaded ==
  loadResult(saveToLocalStorage([ exercises |-> exercises, blocks |-> blocks,
                                  layoutOrder |-> layoutOrder ]))

\* C23 as stated: in every state reached by editing, a save of the session followed by
\* a load succeeds and gives exercises, blocks and layoutOrder equal to those saved,
\* timestamps included, also when a table of blockProgression has entries that are
\* empty or were never filled.
C23_StatedRoundTrip ==
  /\ SavedAndLoaded # undefined
  /\ SavedAndLoaded[1].exercises = exercises
  /\ SavedAndLoaded[1].blocks = blocks
  /\ SavedAndLoaded[1].layoutOrder = layoutOrder

====
